---------------------------- MODULE Spec2Model ----------------------------
(***************************************************************************)
(* A model of the flight simulator core: the simulation actor              *)
(* (internal/simulator/simulator.go), its command intake and state-query   *)
(* channels, and the broadcast registry (internal/pubsub/publisher.go).    *)
(*                                                                         *)
(* Numbers.  The Go code computes in float64; the model computes in        *)
(* integers.  Lengths are in decimetres (one unit of latitude is           *)
(* 1/1110000 degree, so metersPerDegreeLat is folded into the unit),       *)
(* speeds in decimetres per second, angles in whole degrees.  Headings     *)
(* are multiples of 45 degrees and cos/sin are tabulated times 1000; a     *)
(* quotient is truncated toward zero.  The flight region is a few hundred  *)
(* metres around a point on the equator, so cos(latitude) is 1 to within   *)
(* the resolution of the model.                                            *)
(*                                                                         *)
(* Optional values (Go pointers that may be nil) are sequences of length   *)
(* 0 (nil) or 1.                                                           *)
(***************************************************************************)
EXTENDS Integers, Sequences, FiniteSets, TLC

VARIABLES
    state,            \* Simulator.state: the aircraft state
    activeCommand,    \* Simulator.activeCommand: <<>> or <<command>>
    trajectoryState,  \* Simulator.trajectoryState: <<>> or <<index>>
    environment,      \* Simulator.environment: <<>> or <<[wind |-> <<>> or <<w>>]>>
    commandQueue,     \* buffered channel Simulator.commandQueue (its buffer)
    cmdSendq,         \* senders parked on commandQueue, oldest first
    stateRequests,    \* senders parked on the unbuffered stateRequests channel
    subscribers,      \* StatePublisher.subscribers: id -> channel number
    chans,            \* every subscriber channel ever made: [buf, closed]
    bufferSize,       \* StatePublisher.bufferSize
    actor,            \* position of the Run goroutine
    ctxDone,          \* the actor's context has been cancelled
    ticker,           \* ticker.C holds a tick (a channel of capacity 1)
    clock,            \* time.Now(), in ticker periods
    submit,           \* per command: position and result of its SubmitCommand call
    query,            \* per querier: position and result of its GetState call
    cmdPool,          \* the commands callers may submit (fixed by Init)
    config,           \* the config.SimulationConfig given to simulator.New
    hist              \* history: what the actor did, for stating the claims

vars == <<state, activeCommand, trajectoryState, environment, commandQueue,
          cmdSendq, stateRequests, subscribers, chans, bufferSize, actor,
          ctxDone, ticker, clock, submit, query, cmdPool, config, hist>>

---------------------------------------------------------------------------
(* Bounds of the model. *)

\* Number of SubmitCommand calls (one per command id).
MaxCmds == 3
\* Number of concurrent GetState callers.
MaxQueriers == 2
\* Number of ticker periods that elapse.
MaxTicks == 2
\* Number of ticker periods in which a trajectory is flown: reaching each of
\* two waypoints, the leg between them and the return to the first.
TicksPerLap == 4
\* Number of subscriber ids.
MaxSubs == 2
\* Number of subscriber channels ever created.
MaxChans == 2
\* Number of Publish calls made on a registry on its own.
MaxPublish == 4
\* Capacity of a subscriber channel of a registry on its own.
PubBufferSize == 2

CmdIds == 1..MaxCmds
Queriers == 1..MaxQueriers
SubIds == 1..MaxSubs

---------------------------------------------------------------------------
(* Configuration (config.SimulationConfig), in the model's units. *)

TickRateHz == 1
CommandQueueSize == 2
DeltaTime == 1
DefaultSpeed == 100
MaxSpeed == 200
MaxClimbRate == 50
MaxDescentRate == 50
PositionTolerance == 100
HeadingChangeRate == 45
SpeedChangeRate == 100
ActorBufferSize == 10

---------------------------------------------------------------------------
(* Arithmetic helpers. *)

Abs(x) == IF x < 0 THEN -x ELSE x

\* Go's float division, truncated toward zero to the model's resolution.
QuoT(a, b) == IF (a >= 0) = (b > 0) THEN Abs(a) \div Abs(b) ELSE -(Abs(a) \div Abs(b))

RECURSIVE SqrtIter(_, _)
SqrtIter(n, r) ==
    LET s == (r + n \div r) \div 2
    IN IF s >= r THEN r ELSE SqrtIter(n, s)

\* math.Sqrt, rounded down.
Sqrt(n) == IF n <= 0 THEN 0 ELSE SqrtIter(n, n)

\* 1000 * math.Cos(deg * Pi / 180) for deg a multiple of 45.
CosMilli(deg) ==
    LET d == deg % 360
    IN CASE d = 0 -> 1000
         [] d = 45 -> 707
         [] d = 90 -> 0
         [] d = 135 -> -707
         [] d = 180 -> -1000
         [] d = 225 -> -707
         [] d = 270 -> 0
         [] d = 315 -> 707

\* 1000 * math.Sin(deg * Pi / 180) for deg a multiple of 45.
SinMilli(deg) == CosMilli(deg + 270)

\* math.Mod(x + 360, 360) for x > -360: Go's Mod keeps the sign of x + 360.
Mod360(x) == IF x + 360 >= 0 THEN (x + 360) % 360 ELSE -((-(x + 360)) % 360)

---------------------------------------------------------------------------
(* pkg/geo and internal/environment. *)

\* geo.Haversine: the great-circle distance, which over the flight region is
\* the planar distance between the two points.
Haversine(lat1, lon1, lat2, lon2) ==
    Sqrt((lat2 - lat1) * (lat2 - lat1) + (lon2 - lon1) * (lon2 - lon1))

\* toDegrees(math.Atan2(y, x)) to the nearest multiple of 45 in (-180, 180]:
\* tan(22.5) = 0.4142 and tan(67.5) = 2.4142 separate the octants.
Atan2Deg(y, x) ==
    LET ay == Abs(y)
        ax == Abs(x)
        oct == IF 1000 * ay <= 414 * ax THEN 0
               ELSE IF 1000 * ay < 2414 * ax THEN 45 ELSE 90
        up == IF x >= 0 THEN oct ELSE 180 - oct
    IN IF y = 0 /\ x = 0 THEN 0
       ELSE IF y >= 0 THEN up
       ELSE IF up = 180 THEN 180 ELSE -up

\* geo.Bearing: the initial bearing from point 1 to point 2, in [0, 360).
Bearing(lat1, lon1, lat2, lon2) ==
    Mod360(Atan2Deg(lon2 - lon1, lat2 - lat1))

\* WindEffect.Apply: aircraft vector plus the wind's blowing-toward vector.
WindApply(w, heading, velocity) ==
    LET acNorth == velocity.gs * CosMilli(heading)
        acEast == velocity.gs * SinMilli(heading)
        windNorth == -(w.speed * CosMilli(w.direction))
        windEast == -(w.speed * SinMilli(w.direction))
        groundNorth == QuoT(acNorth + windNorth, 1000)
        groundEast == QuoT(acEast + windEast, 1000)
    IN [gs |-> Sqrt(groundNorth * groundNorth + groundEast * groundEast),
        vs |-> velocity.vs]

\* Environment.IsEnabled (an Environment is constructed only when enabled).
IsEnabled(env) == env # <<>>

\* Environment.ApplyEffects.
ApplyEffects(env, heading, velocity) ==
    IF env = <<>> THEN velocity
    ELSE IF env[1].wind # <<>> THEN WindApply(env[1].wind[1], heading, velocity)
    ELSE velocity

---------------------------------------------------------------------------
(* The simulation step.  The operators below take and return the actor's   *)
(* private data as a record s = [state, activeCommand, trajectoryState,    *)
(* panicked]; panicked records a run-time panic (a nil pointer dereference *)
(* or an index out of range), which ends the goroutine where it happens.   *)

\* clamp.
clamp(value, min, max) ==
    IF value < min THEN min ELSE IF value > max THEN max ELSE value

\* An updatePosition that cruises at the default speed when the velocity it
\* is given has no ground speed.
updatePositionCruise(s, deltaTime, velocity) ==
    LET distance == (IF velocity.gs = 0 THEN DefaultSpeed ELSE velocity.gs) * deltaTime
        deltaLat == QuoT(distance * CosMilli(s.state.hdg), 1000)
        deltaLon == QuoT(distance * SinMilli(s.state.hdg), 1000)
    IN [s EXCEPT !.state.lat = @ + deltaLat, !.state.lon = @ + deltaLon,
                 !.state.alt = @ + velocity.vs * deltaTime]

\* An updatePosition that floors the altitude and keeps the vertical speed.
updatePositionFloorOnly(s, deltaTime, velocity) ==
    LET distance == velocity.gs * deltaTime
        deltaLat == QuoT(distance * CosMilli(s.state.hdg), 1000)
        deltaLon == QuoT(distance * SinMilli(s.state.hdg), 1000)
        alt == s.state.alt + velocity.vs * deltaTime
    IN [s EXCEPT !.state.lat = @ + deltaLat, !.state.lon = @ + deltaLon,
                 !.state.alt = IF alt < 0 THEN 0 ELSE alt]

\* Simulator.updatePosition.
updatePosition(s, deltaTime, velocity) ==
    LET distance == velocity.gs * deltaTime
        deltaLat == QuoT(distance * CosMilli(s.state.hdg), 1000)
        deltaLon == QuoT(distance * SinMilli(s.state.hdg), 1000)
        alt == s.state.alt + velocity.vs * deltaTime
        moved == [s EXCEPT !.state.lat = @ + deltaLat,
                           !.state.lon = @ + deltaLon,
                           !.state.alt = alt]
    IN IF alt < 0
       THEN [moved EXCEPT !.state.alt = 0, !.state.vs = 0]
       ELSE moved

\* The shortest angular distance of Simulator.adjustHeading: its diff.
headingDiff(currentHeading, targetHeading) ==
    LET d0 == targetHeading - currentHeading
    IN IF d0 > 180 THEN d0 - 360 ELSE IF d0 < -180 THEN d0 + 360 ELSE d0

\* Simulator.adjustHeading.
adjustHeading(s, targetHeading, deltaTime) ==
    LET currentHeading == s.state.hdg
        diff == headingDiff(currentHeading, targetHeading)
        maxTurn == HeadingChangeRate * deltaTime
        h == IF Abs(diff) < maxTurn THEN targetHeading
             ELSE IF diff > 0 THEN currentHeading + maxTurn
             ELSE currentHeading - maxTurn
    IN [s EXCEPT !.state.hdg = Mod360(h)]

\* An adjustSpeed that takes the target speed at once.
adjustSpeedJump(s, targetSpeed, deltaTime) ==
    LET g1 == IF targetSpeed > MaxSpeed THEN MaxSpeed ELSE targetSpeed
    IN [s EXCEPT !.state.gs = IF g1 < 0 THEN 0 ELSE g1]

\* Simulator.adjustSpeed.
adjustSpeed(s, targetSpeed, deltaTime) ==
    LET currentSpeed == s.state.gs
        diff == targetSpeed - currentSpeed
        maxChange == SpeedChangeRate * deltaTime
        g0 == IF Abs(diff) < maxChange THEN targetSpeed
              ELSE IF diff > 0 THEN currentSpeed + maxChange
              ELSE currentSpeed - maxChange
        g1 == IF g0 > MaxSpeed THEN MaxSpeed ELSE g0
    IN [s EXCEPT !.state.gs = IF g1 < 0 THEN 0 ELSE g1]

\* An executeGoTo that clears the command on arrival and keeps the velocity.
executeGoToKeepSpeed(s, cmd, deltaTime) ==
    IF cmd = <<>> THEN [s EXCEPT !.panicked = TRUE]
    ELSE
    LET target == cmd[1].target
        distance == Haversine(s.state.lat, s.state.lon, target.lat, target.lon)
    IN IF distance < PositionTolerance
       THEN [s EXCEPT !.activeCommand = <<>>]
       ELSE
       LET targetHeading == Bearing(s.state.lat, s.state.lon, target.lat, target.lon)
           s1 == adjustHeading(s, targetHeading, deltaTime)
           targetSpeed == IF cmd[1].speed # <<>> THEN cmd[1].speed[1] ELSE DefaultSpeed
           s2 == adjustSpeed(s1, targetSpeed, deltaTime)
           altitudeDiff == target.alt - s2.state.alt
           desiredVerticalSpeed ==
               IF s2.state.gs = 0 THEN 0
               ELSE QuoT(altitudeDiff * s2.state.gs, distance)
           s3 == IF distance > 0
                 THEN [s2 EXCEPT !.state.vs =
                          clamp(desiredVerticalSpeed, -MaxDescentRate, MaxClimbRate)]
                 ELSE s2
       IN updatePosition(s3, deltaTime, [gs |-> s3.state.gs, vs |-> s3.state.vs])

\* Simulator.executeGoTo.  cmd is <<>> (a nil *GoToCommand) or <<goto>>.
executeGoTo(s, cmd, deltaTime) ==
    IF cmd = <<>> THEN [s EXCEPT !.panicked = TRUE]
    ELSE
    LET target == cmd[1].target
        distance == Haversine(s.state.lat, s.state.lon, target.lat, target.lon)
    IN IF distance < PositionTolerance
       THEN [s EXCEPT !.activeCommand = <<>>, !.state.gs = 0, !.state.vs = 0]
       ELSE
       LET targetHeading == Bearing(s.state.lat, s.state.lon, target.lat, target.lon)
           s1 == adjustHeading(s, targetHeading, deltaTime)
           targetSpeed == IF cmd[1].speed # <<>> THEN cmd[1].speed[1] ELSE DefaultSpeed
           s2 == adjustSpeed(s1, targetSpeed, deltaTime)
           altitudeDiff == target.alt - s2.state.alt
           \* timeToTarget = distance / groundSpeed is +Inf when the ground speed
           \* is 0 (distance > 0), and altitudeDiff / +Inf is 0.
           desiredVerticalSpeed ==
               IF s2.state.gs = 0 THEN 0
               ELSE QuoT(altitudeDiff * s2.state.gs, distance)
           s3 == IF distance > 0
                 THEN [s2 EXCEPT !.state.vs =
                          clamp(desiredVerticalSpeed, -MaxDescentRate, MaxClimbRate)]
                 ELSE s2
       IN updatePosition(s3, deltaTime, [gs |-> s3.state.gs, vs |-> s3.state.vs])

\* An executeTrajectory that leaves the arrival at a waypoint to the GoTo
\* step, which clears the active command.
executeTrajectoryViaGoTo(s, cmd, deltaTime, velocity) ==
    LET s0 == IF s.trajectoryState = <<>>
              THEN [s EXCEPT !.trajectoryState = <<0>>] ELSE s
    IN IF cmd = <<>> THEN [s0 EXCEPT !.panicked = TRUE]
       ELSE
       LET waypoints == cmd[1].waypoints
           complete == s0.trajectoryState[1] >= Len(waypoints)
       IN IF complete /\ ~cmd[1].loop
          THEN [s0 EXCEPT !.activeCommand = <<>>, !.trajectoryState = <<>>,
                          !.state.gs = 0, !.state.vs = 0]
          ELSE
          LET s1 == IF complete THEN [s0 EXCEPT !.trajectoryState = <<0>>] ELSE s0
              index == s1.trajectoryState[1]
          IN IF index >= Len(waypoints) THEN [s1 EXCEPT !.panicked = TRUE]
             ELSE
             LET waypoint == waypoints[index + 1]
                 gotoCmd == [target |-> waypoint.position, speed |-> waypoint.speed]
             IN executeGoTo(s1, <<gotoCmd>>, deltaTime)

\* An executeTrajectory that keeps the velocity and the progress when the
\* trajectory completes.
executeTrajectoryCoast(s, cmd, deltaTime, velocity) ==
    LET s0 == IF s.trajectoryState = <<>>
              THEN [s EXCEPT !.trajectoryState = <<0>>] ELSE s
    IN IF cmd = <<>> THEN [s0 EXCEPT !.panicked = TRUE]
       ELSE
       LET waypoints == cmd[1].waypoints
           complete == s0.trajectoryState[1] >= Len(waypoints)
       IN IF complete /\ ~cmd[1].loop
          THEN [s0 EXCEPT !.activeCommand = <<>>]
          ELSE
          LET s1 == IF complete THEN [s0 EXCEPT !.trajectoryState = <<0>>] ELSE s0
              index == s1.trajectoryState[1]
          IN IF index >= Len(waypoints) THEN [s1 EXCEPT !.panicked = TRUE]
             ELSE
             LET waypoint == waypoints[index + 1]
                 gotoCmd == [target |-> waypoint.position, speed |-> waypoint.speed]
                 distance == Haversine(s1.state.lat, s1.state.lon,
                                       waypoint.position.lat, waypoint.position.lon)
             IN IF distance < PositionTolerance
                THEN [s1 EXCEPT !.trajectoryState = <<index + 1>>]
                ELSE executeGoTo(s1, <<gotoCmd>>, deltaTime)

\* An executeTrajectory that completes a looping trajectory like any other.
executeTrajectoryOnce(s, cmd, deltaTime, velocity) ==
    LET s0 == IF s.trajectoryState = <<>>
              THEN [s EXCEPT !.trajectoryState = <<0>>] ELSE s
    IN IF cmd = <<>> THEN [s0 EXCEPT !.panicked = TRUE]
       ELSE
       LET waypoints == cmd[1].waypoints
           complete == s0.trajectoryState[1] >= Len(waypoints)
       IN IF complete
          THEN [s0 EXCEPT !.activeCommand = <<>>, !.trajectoryState = <<>>,
                          !.state.gs = 0, !.state.vs = 0]
          ELSE
          LET index == s0.trajectoryState[1]
              waypoint == waypoints[index + 1]
              gotoCmd == [target |-> waypoint.position, speed |-> waypoint.speed]
              distance == Haversine(s0.state.lat, s0.state.lon,
                                    waypoint.position.lat, waypoint.position.lon)
          IN IF distance < PositionTolerance
             THEN [s0 EXCEPT !.trajectoryState = <<index + 1>>]
             ELSE executeGoTo(s0, <<gotoCmd>>, deltaTime)

\* Simulator.executeTrajectory.  cmd is <<>> (a nil *TrajectoryCommand) or
\* <<trajectory>>.
executeTrajectory(s, cmd, deltaTime, velocity) ==
    LET s0 == IF s.trajectoryState = <<>>
              THEN [s EXCEPT !.trajectoryState = <<0>>] ELSE s
    IN IF cmd = <<>> THEN [s0 EXCEPT !.panicked = TRUE]
       ELSE
       LET waypoints == cmd[1].waypoints
           complete == s0.trajectoryState[1] >= Len(waypoints)
       IN IF complete /\ ~cmd[1].loop
          THEN [s0 EXCEPT !.activeCommand = <<>>, !.trajectoryState = <<>>,
                          !.state.gs = 0, !.state.vs = 0]
          ELSE
          LET s1 == IF complete THEN [s0 EXCEPT !.trajectoryState = <<0>>] ELSE s0
              index == s1.trajectoryState[1]
          IN IF index >= Len(waypoints) THEN [s1 EXCEPT !.panicked = TRUE]
             ELSE
             LET waypoint == waypoints[index + 1]
                 gotoCmd == [target |-> waypoint.position, speed |-> waypoint.speed]
                 distance == Haversine(s1.state.lat, s1.state.lon,
                                       waypoint.position.lat, waypoint.position.lon)
             IN IF distance < PositionTolerance
                THEN [s1 EXCEPT !.trajectoryState = <<index + 1>>]
                ELSE executeGoTo(s1, <<gotoCmd>>, deltaTime)

\* An executeHold that gives up the slot once the aircraft has stopped.
executeHoldRelease(s, deltaTime, velocity) ==
    LET s1 == adjustSpeed(s, 0, deltaTime)
        s2 == [s1 EXCEPT !.state.vs = 0]
        s3 == updatePosition(s2, deltaTime, [gs |-> s2.state.gs, vs |-> s2.state.vs])
    IN IF s3.state.gs = 0 THEN [s3 EXCEPT !.activeCommand = <<>>] ELSE s3

\* An executeHold that integrates the wind-adjusted velocity it is given.
executeHoldDrift(s, deltaTime, velocity) ==
    LET s1 == adjustSpeed(s, 0, deltaTime)
        s2 == [s1 EXCEPT !.state.vs = 0]
    IN updatePosition(s2, deltaTime, [gs |-> velocity.gs, vs |-> 0])

\* Simulator.executeHold.
executeHold(s, deltaTime, velocity) ==
    LET s1 == adjustSpeed(s, 0, deltaTime)
        s2 == [s1 EXCEPT !.state.vs = 0]
    IN updatePosition(s2, deltaTime, [gs |-> s2.state.gs, vs |-> s2.state.vs])

\* Environment.GetState: the environment snapshot attached to the state.
EnvGetState(env) == env

\* A tick that stores the wind-perturbed velocity in the state before the
\* behaviour step.
tickStoreWind(s, env, now) ==
    LET deltaTime == DeltaTime
        own == [gs |-> s.state.gs, vs |-> s.state.vs]
        effectiveVelocity ==
            IF IsEnabled(env) THEN ApplyEffects(env, s.state.hdg, own) ELSE own
        s0 == [s EXCEPT !.state.gs = effectiveVelocity.gs,
                        !.state.vs = effectiveVelocity.vs]
        s1 == IF s0.activeCommand # <<>>
              THEN LET c == s0.activeCommand[1]
                   IN CASE c.type = "goto" -> executeGoTo(s0, c.goto, deltaTime)
                        [] c.type = "trajectory" ->
                             executeTrajectory(s0, c.trajectory, deltaTime,
                                               effectiveVelocity)
                        [] c.type = "hold" -> executeHold(s0, deltaTime, effectiveVelocity)
                        [] c.type = "stop" -> s0
                        [] OTHER -> s0
              ELSE updatePosition(s0, deltaTime, effectiveVelocity)
    IN IF s1.panicked THEN s1
       ELSE [s1 EXCEPT !.state.env = EnvGetState(env), !.state.ts = now]

\* A tick that also writes a descriptor of the command left in the slot
\* into the state.
tickDescribe(s, env, now) ==
    LET deltaTime == DeltaTime
        own == [gs |-> s.state.gs, vs |-> s.state.vs]
        effectiveVelocity ==
            IF IsEnabled(env) THEN ApplyEffects(env, s.state.hdg, own) ELSE own
        s1 == IF s.activeCommand # <<>>
              THEN LET c == s.activeCommand[1]
                   IN CASE c.type = "goto" -> executeGoTo(s, c.goto, deltaTime)
                        [] c.type = "trajectory" ->
                             executeTrajectory(s, c.trajectory, deltaTime,
                                               effectiveVelocity)
                        [] c.type = "hold" -> executeHold(s, deltaTime, effectiveVelocity)
                        [] c.type = "stop" -> s
                        [] OTHER -> s
              ELSE updatePosition(s, deltaTime, effectiveVelocity)
    IN IF s1.panicked THEN s1
       ELSE [s1 EXCEPT !.state.env = EnvGetState(env), !.state.ts = now,
                       !.state.cmdInfo = IF s1.activeCommand # <<>>
                                         THEN <<s1.activeCommand[1].type>> ELSE <<>>]

\* Simulator.tick, up to the Publish call: the behaviour step, the
\* environment snapshot and the timestamp.  A panic leaves the rest undone.
tick(s, env, now) ==
    LET deltaTime == DeltaTime
        own == [gs |-> s.state.gs, vs |-> s.state.vs]
        effectiveVelocity ==
            IF IsEnabled(env) THEN ApplyEffects(env, s.state.hdg, own) ELSE own
        s1 == IF s.activeCommand # <<>>
              THEN LET c == s.activeCommand[1]
                   IN CASE c.type = "goto" -> executeGoTo(s, c.goto, deltaTime)
                        [] c.type = "trajectory" ->
                             executeTrajectory(s, c.trajectory, deltaTime,
                                               effectiveVelocity)
                        [] c.type = "hold" -> executeHold(s, deltaTime, effectiveVelocity)
                        [] c.type = "stop" -> s
                        [] OTHER -> s
              ELSE updatePosition(s, deltaTime, effectiveVelocity)
    IN IF s1.panicked THEN s1
       ELSE [s1 EXCEPT !.state.env = EnvGetState(env), !.state.ts = now]

\* A handleCommand that zeroes the velocity as soon as a Stop is accepted.
handleCommandStopNow(s, cmd) ==
    LET s1 == IF s.activeCommand # <<>> /\ s.activeCommand[1].type = "trajectory"
                 /\ cmd.type # "trajectory"
              THEN [s EXCEPT !.trajectoryState = <<>>] ELSE s
        s2 == [s1 EXCEPT !.activeCommand = <<cmd>>]
        s3 == IF cmd.type = "stop"
              THEN [s2 EXCEPT !.state.gs = 0, !.state.vs = 0] ELSE s2
    IN IF cmd.type = "trajectory"
       THEN [s3 EXCEPT !.trajectoryState = <<0>>] ELSE s3

\* A handleCommand that keeps the trajectory progress whatever replaces the
\* trajectory.
handleCommandKeepProgress(s, cmd) ==
    LET s2 == [s EXCEPT !.activeCommand = <<cmd>>]
    IN IF cmd.type = "trajectory"
       THEN [s2 EXCEPT !.trajectoryState = <<0>>] ELSE s2

\* Simulator.handleCommand.
handleCommand(s, cmd) ==
    LET s1 == IF s.activeCommand # <<>> /\ s.activeCommand[1].type = "trajectory"
                 /\ cmd.type # "trajectory"
              THEN [s EXCEPT !.trajectoryState = <<>>] ELSE s
        s2 == [s1 EXCEPT !.activeCommand = <<cmd>>]
    IN IF cmd.type = "trajectory"
       THEN [s2 EXCEPT !.trajectoryState = <<0>>] ELSE s2

---------------------------------------------------------------------------
(* The broadcast registry (pubsub.StatePublisher).  A channel is a record  *)
(* [buf, closed]; subscribers maps an id to the number of its channel in   *)
(* chans.  Each operation holds the registry's lock for its whole body, so *)
(* it is one step.                                                         *)

NewChan == [buf |-> <<>>, closed |-> FALSE]

\* A Publish that stops at the first full channel instead of skipping it
\* (in the order of the channel numbers).
PublishStopAtFull(subs, chs, cap, st) ==
    [c \in DOMAIN chs |->
        IF /\ \E id \in DOMAIN subs : subs[id] = c
           /\ \A d \in DOMAIN chs :
                 (d <= c /\ \E id \in DOMAIN subs : subs[id] = d) => Len(chs[d].buf) < cap
        THEN [chs[c] EXCEPT !.buf = Append(@, st)]
        ELSE chs[c]]

\* A Publish that gives up for everyone when some subscriber's channel is
\* full.
PublishAllOrNone(subs, chs, cap, st) ==
    IF \A c \in DOMAIN chs :
          (\E id \in DOMAIN subs : subs[id] = c) => Len(chs[c].buf) < cap
    THEN [c \in DOMAIN chs |->
             IF \E id \in DOMAIN subs : subs[id] = c
             THEN [chs[c] EXCEPT !.buf = Append(@, st)]
             ELSE chs[c]]
    ELSE chs

\* A Publish that puts the snapshot in front of those already queued.
PublishInFront(subs, chs, cap, st) ==
    [c \in DOMAIN chs |->
        IF (\E id \in DOMAIN subs : subs[id] = c) /\ Len(chs[c].buf) < cap
        THEN [chs[c] EXCEPT !.buf = <<st>> \o @]
        ELSE chs[c]]

\* A Publish that enqueues whether or not the channel has room.
PublishUnbounded(subs, chs, cap, st) ==
    [c \in DOMAIN chs |->
        IF \E id \in DOMAIN subs : subs[id] = c
        THEN [chs[c] EXCEPT !.buf = Append(@, st)]
        ELSE chs[c]]

\* A Publish that sends the snapshot twice to each subscriber.
PublishTwice(subs, chs, cap, st) ==
    [c \in DOMAIN chs |->
        IF (\E id \in DOMAIN subs : subs[id] = c) /\ Len(chs[c].buf) < cap
        THEN [chs[c] EXCEPT !.buf = Append(Append(@, st), st)]
        ELSE chs[c]]

\* StatePublisher.Publish: the channels after one Publish of snapshot st to
\* the subscribers subs, each channel having capacity cap.  A send to a full
\* channel takes the default case of the select.
Publish(subs, chs, cap, st) ==
    [c \in DOMAIN chs |->
        IF (\E id \in DOMAIN subs : subs[id] = c) /\ Len(chs[c].buf) < cap
        THEN [chs[c] EXCEPT !.buf = Append(@, st)]
        ELSE chs[c]]

\* StatePublisher.SubscriberCount.
SubscriberCount == Cardinality(DOMAIN subscribers)

---------------------------------------------------------------------------
(* Channels.  A buffered channel is its buffer; a sender that finds it     *)
(* full parks in the channel's queue of senders, and the receive that      *)
(* frees a slot moves the oldest parked sender's value into the buffer in  *)
(* the same step (Go's chanrecv).  So a sender is parked only while the    *)
(* buffer is full.                                                         *)

\* A channel made one slot too large.
CanSendOneMore(q) == Len(q) <= CommandQueueSize

\* The send case `s.commandQueue <- cmd` of SubmitCommand's select is ready.
CanSend(q) == Len(q) < CommandQueueSize

\* A receive that takes the newest command first.
ChanRecvNewest(q) == [val |-> q[Len(q)], rest |-> SubSeq(q, 1, Len(q) - 1)]

\* A receive that drains the queue and keeps only the newest command.
ChanRecvDrain(q) == [val |-> q[Len(q)], rest |-> <<>>]

\* The receive `cmd := <-s.commandQueue` of Run: the value and what is left.
ChanRecv(q) == [val |-> Head(q), rest |-> Tail(q)]

\* A loop that takes a new command only when no command is active.
CaseCommandWhenIdle == commandQueue # <<>> /\ activeCommand = <<>>

\* A loop that leaves only once no command is active.
CaseDoneWhenIdle == ctxDone /\ activeCommand = <<>>

\* The cases of Run's select that are ready.
CaseDone == ctxDone
CaseTick == ticker
CaseCommand == commandQueue # <<>>
CaseState == stateRequests # <<>>

\* The actor's private data as one record.
Sim == [state |-> state, activeCommand |-> activeCommand,
        trajectoryState |-> trajectoryState, panicked |-> FALSE]

\* History: a parked sender sees whether the buffer q ever has room.
Observe(sub, q) ==
    [c \in DOMAIN sub |->
        IF sub[c].pc = "parked" /\ Len(q) < CommandQueueSize
        THEN [sub[c] EXCEPT !.sawRoom = TRUE] ELSE sub[c]]

cfgVars == <<environment, bufferSize, cmdPool, config>>
simVars == <<state, activeCommand, trajectoryState>>
pubVars == <<subscribers, chans>>
callVars == <<submit, query, cmdSendq, stateRequests, commandQueue>>

---------------------------------------------------------------------------
(* The actor: Simulator.Run. *)

\* `go sim.Run(ctx)`: the loop starts and creates its ticker.
Start ==
    /\ actor = "idle"
    /\ actor' = "running"
    /\ UNCHANGED <<simVars, pubVars, cfgVars, callVars, ctxDone, ticker, clock, hist>>

\* One ticker period elapses: ticker.C (capacity 1) holds a tick.
TickerFire ==
    /\ actor = "running"
    /\ clock < MaxTicks
    /\ clock' = clock + 1
    /\ ticker' = TRUE
    /\ UNCHANGED <<simVars, pubVars, cfgVars, callVars, ctxDone, actor, hist>>

\* case <-ticker.C: s.tick(), with its Publish.
Tick ==
    /\ actor = "running"
    /\ CaseTick
    /\ LET s1 == tick(Sim, environment, clock)
       IN /\ state' = s1.state
          /\ activeCommand' = s1.activeCommand
          /\ trajectoryState' = s1.trajectoryState
          /\ IF s1.panicked
             THEN /\ actor' = "panicked"
                  /\ UNCHANGED chans
             ELSE /\ actor' = actor
                  /\ chans' = Publish(subscribers, chans, bufferSize, s1.state)
          /\ hist' = [hist EXCEPT
                 !.ticks = @ + 1,
                 !.lastTick = IF s1.panicked THEN "panic"
                              ELSE IF activeCommand = <<>> THEN "none"
                              ELSE activeCommand[1].type,
                 !.tickedSinceAccept = TRUE,
                 !.betweenCmds = IF hist.ticks > 0 THEN hist.cmdsSinceTick ELSE @,
                 !.betweenReplies = IF hist.ticks > 0 THEN hist.repliesSinceTick ELSE @,
                 !.cmdsSinceTick = 0,
                 !.repliesSinceTick = 0]
    /\ ticker' = FALSE
    /\ UNCHANGED <<subscribers, cfgVars, callVars, ctxDone, clock>>

\* case cmd := <-s.commandQueue: s.handleCommand(cmd).
HandleCommand ==
    /\ actor = "running"
    /\ CaseCommand
    /\ LET r == ChanRecv(commandQueue)
           s1 == handleCommand(Sim, r.val)
           q1 == IF cmdSendq # <<>>
                 THEN Append(r.rest, submit[Head(cmdSendq)].cmd[1]) ELSE r.rest
           sub1 == IF cmdSendq # <<>>
                   THEN [submit EXCEPT ![Head(cmdSendq)].pc = "done",
                                       ![Head(cmdSendq)].result = "ok",
                                       ![Head(cmdSendq)].sawRoom = TRUE]
                   ELSE submit
       IN /\ state' = s1.state
          /\ activeCommand' = s1.activeCommand
          /\ trajectoryState' = s1.trajectoryState
          /\ commandQueue' = q1
          /\ cmdSendq' = IF cmdSendq # <<>> THEN Tail(cmdSendq) ELSE cmdSendq
          /\ submit' = Observe(sub1, q1)
          /\ hist' = [hist EXCEPT
                 !.handled = Append(@, r.val.id),
                 !.taken = @ + (Len(commandQueue) - Len(r.rest)),
                 !.accepted = IF cmdSendq # <<>> THEN Append(@, Head(cmdSendq)) ELSE @,
                 !.tickedSinceAccept = FALSE,
                 !.cmdsSinceTick = IF @ < 2 THEN @ + 1 ELSE @]
    /\ UNCHANGED <<pubVars, cfgVars, query, stateRequests, actor, ctxDone, ticker, clock>>

\* case req := <-s.stateRequests: req.reply <- s.state.
StateReply ==
    /\ actor = "running"
    /\ CaseState
    /\ LET q == Head(stateRequests)
       IN /\ query' = [query EXCEPT ![q].pc = "done", ![q].result = "ok",
                                    ![q].snap = <<state>>]
          /\ stateRequests' = Tail(stateRequests)
    /\ hist' = [hist EXCEPT !.replies = @ + 1,
                            !.repliesSinceTick = IF @ < 2 THEN @ + 1 ELSE @]
    /\ UNCHANGED <<simVars, pubVars, cfgVars, submit, cmdSendq, commandQueue,
                   actor, ctxDone, ticker, clock>>

\* case <-ctx.Done(): return ctx.Err(), and the deferred ticker.Stop().
RunReturn ==
    /\ actor = "running"
    /\ CaseDone
    /\ actor' = "returned"
    /\ ticker' = FALSE
    /\ UNCHANGED <<simVars, pubVars, cfgVars, callVars, ctxDone, clock, hist>>

\* The process-wide cancellation fires (main's cancel()).
CtxCancel ==
    /\ ~ctxDone
    /\ ctxDone' = TRUE
    /\ UNCHANGED <<simVars, pubVars, cfgVars, callVars, actor, ticker, clock, hist>>

---------------------------------------------------------------------------
(* Simulator.SubmitCommand, one call per command id.  The select polls its *)
(* cases once: among those ready Go picks one at random; when none is      *)
(* ready the caller parks until the first of them fires.  time.After is    *)
(* never ready at the poll.                                                *)

\* Command ids are handed out in the order of the calls (models.NewCommand
\* draws a fresh id for each request).
Fresh(c) == submit[c].pc = "idle" /\ \A d \in CmdIds : d < c => submit[d].pc # "idle"

\* The call starts and the send case is taken.
SubmitSend(c, p, cancelled) ==
    /\ Fresh(c)
    /\ CanSend(commandQueue)
    /\ LET cmd == [id |-> c, type |-> p.type, goto |-> p.goto,
                   trajectory |-> p.trajectory]
           sub1 == [submit EXCEPT ![c] =
                      [pc |-> "done", result |-> "ok", cmd |-> <<cmd>>,
                       preCancelled |-> cancelled, fullAtInvoke |-> FALSE,
                       sawRoom |-> TRUE,
                       okBefore |-> {d \in CmdIds : submit[d].result = "ok"}]]
       IN /\ commandQueue' = Append(commandQueue, cmd)
          /\ submit' = Observe(sub1, commandQueue')
    /\ hist' = [hist EXCEPT !.accepted = Append(@, c)]
    /\ UNCHANGED <<simVars, pubVars, cfgVars, query, cmdSendq, stateRequests,
                   actor, ctxDone, ticker, clock>>

\* The call starts with the caller's context already done, and the
\* ctx.Done() case is taken.
SubmitPreCancelled(c) ==
    /\ Fresh(c)
    /\ submit' = [submit EXCEPT ![c] =
                     [pc |-> "done", result |-> "Cancelled", cmd |-> <<>>,
                      preCancelled |-> TRUE,
                      fullAtInvoke |-> ~CanSend(commandQueue),
                      sawRoom |-> CanSend(commandQueue),
                      okBefore |-> {d \in CmdIds : submit[d].result = "ok"}]]
    /\ UNCHANGED <<simVars, pubVars, cfgVars, query, cmdSendq, stateRequests,
                   commandQueue, actor, ctxDone, ticker, clock, hist>>

\* The call starts and no case is ready: the caller parks.
SubmitPark(c, p) ==
    /\ Fresh(c)
    /\ ~CanSend(commandQueue)
    /\ LET cmd == [id |-> c, type |-> p.type, goto |-> p.goto,
                   trajectory |-> p.trajectory]
       IN submit' = [submit EXCEPT ![c] =
                       [pc |-> "parked", result |-> "none", cmd |-> <<cmd>>,
                        preCancelled |-> FALSE, fullAtInvoke |-> TRUE,
                        sawRoom |-> FALSE,
                        okBefore |-> {d \in CmdIds : submit[d].result = "ok"}]]
    /\ cmdSendq' = Append(cmdSendq, c)
    /\ UNCHANGED <<simVars, pubVars, cfgVars, query, stateRequests,
                   commandQueue, actor, ctxDone, ticker, clock, hist>>

\* A sequence without the element x.
Without(seq, x) == SelectSeq(seq, LAMBDA y : y # x)

\* case <-ctx.Done() of a parked caller: return ctx.Err().
SubmitCancel(c) ==
    /\ submit[c].pc = "parked"
    /\ submit' = [submit EXCEPT ![c].pc = "done", ![c].result = "Cancelled"]
    /\ cmdSendq' = Without(cmdSendq, c)
    /\ UNCHANGED <<simVars, pubVars, cfgVars, query, stateRequests,
                   commandQueue, actor, ctxDone, ticker, clock, hist>>

\* case <-time.After(5 * time.Second) of a parked caller: ErrCommandQueueFull.
SubmitTimeout(c) ==
    /\ submit[c].pc = "parked"
    /\ submit' = [submit EXCEPT ![c].pc = "done", ![c].result = "QueueFull"]
    /\ cmdSendq' = Without(cmdSendq, c)
    /\ UNCHANGED <<simVars, pubVars, cfgVars, query, stateRequests,
                   commandQueue, actor, ctxDone, ticker, clock, hist>>

---------------------------------------------------------------------------
(* Simulator.GetState, one call per querier.  stateRequests is unbuffered: *)
(* the caller parks as a sender until the actor's select receives from it. *)

\* A GetState whose select has no time.After case.
GetNoTimeout(q) ==
    /\ FALSE
    /\ UNCHANGED vars

\* Callers are numbered in the order of their calls.
FreshQuery(q) ==
    query[q].pc = "idle" /\ \A r \in Queriers : r < q => query[r].pc # "idle"

\* The call starts: the caller parks on `s.stateRequests <- req`.
GetPark(q) ==
    /\ FreshQuery(q)
    /\ query' = [query EXCEPT ![q].pc = "parked"]
    /\ stateRequests' = Append(stateRequests, q)
    /\ UNCHANGED <<simVars, pubVars, cfgVars, submit, cmdSendq, commandQueue,
                   actor, ctxDone, ticker, clock, hist>>

\* CommandHandler.GoTo after its SubmitCommand returned nil: it calls
\* GetState for the ETA.  The handler of command c is GetState caller c.
HandlerGetState(c) ==
    /\ c \in Queriers
    /\ submit[c].result = "ok"
    /\ query[c].pc = "idle"
    /\ query' = [query EXCEPT ![c].pc = "parked"]
    /\ stateRequests' = Append(stateRequests, c)
    /\ UNCHANGED <<simVars, pubVars, cfgVars, submit, cmdSendq, commandQueue,
                   actor, ctxDone, ticker, clock, hist>>

\* case <-ctx.Done(): the caller's context is done at the call or fires
\* while the caller is parked.
GetCancel(q) ==
    /\ FreshQuery(q) \/ query[q].pc = "parked"
    /\ query' = [query EXCEPT ![q].pc = "done", ![q].result = "Cancelled"]
    /\ stateRequests' = Without(stateRequests, q)
    /\ UNCHANGED <<simVars, pubVars, cfgVars, submit, cmdSendq, commandQueue,
                   actor, ctxDone, ticker, clock, hist>>

\* case <-time.After(1 * time.Second): ErrTimeout.
GetTimeout(q) ==
    /\ query[q].pc = "parked"
    /\ query' = [query EXCEPT ![q].pc = "done", ![q].result = "Timeout"]
    /\ stateRequests' = Without(stateRequests, q)
    /\ UNCHANGED <<simVars, pubVars, cfgVars, submit, cmdSendq, commandQueue,
                   actor, ctxDone, ticker, clock, hist>>

---------------------------------------------------------------------------
(* Users of the broadcast registry. *)

\* A Subscribe that keeps the queue an id already has and hands out a new
\* one that is not registered.
SubscribeKeepFirst(id) ==
    /\ Len(chans) < MaxChans
    /\ chans' = Append(chans, NewChan)
    /\ subscribers' = [i \in DOMAIN subscribers \cup {id} |->
                          IF i \in DOMAIN subscribers THEN subscribers[i]
                          ELSE Len(chans) + 1]
    /\ UNCHANGED <<simVars, cfgVars, callVars, actor, ctxDone, ticker, clock, hist>>

\* StatePublisher.Subscribe.
Subscribe(id) ==
    /\ Len(chans) < MaxChans
    /\ chans' = Append(chans, NewChan)
    /\ subscribers' = [i \in DOMAIN subscribers \cup {id} |->
                          IF i = id THEN Len(chans) + 1 ELSE subscribers[i]]
    /\ UNCHANGED <<simVars, cfgVars, callVars, actor, ctxDone, ticker, clock, hist>>

\* An Unsubscribe that closes the channel and leaves it in the map.
UnsubscribeCloseOnly(id) ==
    /\ IF id \in DOMAIN subscribers
       THEN chans' = [chans EXCEPT ![subscribers[id]].closed = TRUE]
       ELSE UNCHANGED chans
    /\ UNCHANGED <<simVars, subscribers, cfgVars, callVars, actor, ctxDone, ticker,
                   clock, hist>>

\* StatePublisher.Unsubscribe.
Unsubscribe(id) ==
    /\ IF id \in DOMAIN subscribers
       THEN /\ chans' = [chans EXCEPT ![subscribers[id]].closed = TRUE]
            /\ subscribers' = [i \in DOMAIN subscribers \ {id} |-> subscribers[i]]
       ELSE UNCHANGED <<subscribers, chans>>
    /\ UNCHANGED <<simVars, cfgVars, callVars, actor, ctxDone, ticker, clock, hist>>

\* A subscriber takes the oldest snapshot from its channel.
Receive(c) ==
    /\ c \in DOMAIN chans
    /\ chans[c].buf # <<>>
    /\ chans' = [chans EXCEPT ![c].buf = Tail(@)]
    /\ hist' = [hist EXCEPT !.recv[c] = Append(@, chans[c].buf[1].ts)]
    /\ UNCHANGED <<simVars, subscribers, cfgVars, callVars, actor, ctxDone,
                   ticker, clock>>

---------------------------------------------------------------------------
(* Commands and configurations the model draws from. *)

Pos(lat, lon, alt) == [lat |-> lat, lon |-> lon, alt |-> alt]

\* cfg.InitialPosition.
InitialPosition == Pos(0, 0, 1000)
\* A target within PositionTolerance of the initial position, and two beyond.
NearTarget == Pos(50, 0, 1000)
FarTarget == Pos(3000, 3000, 1200)
NorthTarget == Pos(250, 0, 900)

GoToCmd(target, speed) ==
    [type |-> "goto", goto |-> <<[target |-> target, speed |-> speed]>>,
     trajectory |-> <<>>]
TrajectoryCmd(waypoints, loop) ==
    [type |-> "trajectory", goto |-> <<>>,
     trajectory |-> <<[waypoints |-> waypoints, loop |-> loop]>>]
Waypoint(position, speed) == [position |-> position, speed |-> speed]
\* models.NewCommand(cmdType): a typed command with no payload set.
BareCmd(type) == [type |-> type, goto |-> <<>>, trajectory |-> <<>>]

StopCmd == BareCmd("stop")
HoldCmd == BareCmd("hold")

\* What validated requests of the HTTP handlers submit.
ValidPool ==
    {StopCmd, HoldCmd, GoToCmd(FarTarget, <<>>), GoToCmd(NearTarget, <<DefaultSpeed>>),
     TrajectoryCmd(<<Waypoint(NearTarget, <<>>), Waypoint(NorthTarget, <<>>)>>, FALSE)}

\* What SubmitCommand accepts beyond that: it checks nothing.
UncheckedPool ==
    {BareCmd("goto"), BareCmd("trajectory"),
     TrajectoryCmd(<<>>, TRUE), TrajectoryCmd(<<>>, FALSE)}

\* The fields of config.SimulationConfig that simulator.New reads.
SimulationConfig(rate, size, pos, gs, vs, hdg) ==
    [TickRateHz |-> rate, CommandQueueSize |-> size, InitialPosition |-> pos,
     InitialVelocity |-> [gs |-> gs, vs |-> vs], InitialHeading |-> hdg]

\* simulator.New(cfg, ...) called at time now: the error it returns ("nil":
\* none) with the initial state of the actor it returns, or the panic of
\* make(chan, n) for a negative n.
New(cfg, now) ==
    IF cfg.TickRateHz <= 0
    THEN [err |-> "tick rate must be positive", panicked |-> FALSE, state |-> <<>>]
    ELSE [err |-> "nil",
          panicked |-> cfg.CommandQueueSize < 0,
          state |-> <<[lat |-> cfg.InitialPosition.lat,
                       lon |-> cfg.InitialPosition.lon,
                       alt |-> cfg.InitialPosition.alt,
                       gs |-> cfg.InitialVelocity.gs, vs |-> cfg.InitialVelocity.vs,
                       hdg |-> cfg.InitialHeading,
                       ts |-> now, cmdInfo |-> <<>>, env |-> <<>>]>>]

\* simulator.New at time start (of the wall clock, in ticker periods): the
\* state after construction, for an initial velocity, heading and environment
\* of the configuration.
InitAt(start, alts, pool, envs, speeds, vspeeds, headings, cap) ==
    /\ cmdPool = pool
    /\ environment \in envs
    /\ \E a \in alts, g \in speeds, v \in vspeeds, h \in headings :
          /\ config = SimulationConfig(TickRateHz, CommandQueueSize,
                                       Pos(InitialPosition.lat, InitialPosition.lon, a),
                                       g, v, h)
          /\ state = New(config, start).state[1]
    /\ activeCommand = <<>>
    /\ trajectoryState = <<>>
    /\ commandQueue = <<>>
    /\ cmdSendq = <<>>
    /\ stateRequests = <<>>
    /\ subscribers = [i \in {} |-> 0]
    /\ chans = <<>>
    /\ bufferSize = cap
    /\ actor = "idle"
    /\ ctxDone = FALSE
    /\ ticker = FALSE
    /\ clock = start
    /\ submit = [c \in CmdIds |->
                   [pc |-> "idle", result |-> "none", cmd |-> <<>>,
                    preCancelled |-> FALSE, fullAtInvoke |-> FALSE,
                    sawRoom |-> FALSE, okBefore |-> {}]]
    /\ query = [q \in Queriers |-> [pc |-> "idle", result |-> "none", snap |-> <<>>]]
    /\ hist = [accepted |-> <<>>, handled |-> <<>>, taken |-> 0, replies |-> 0,
               ticks |-> 0, lastTick |-> "never", tickedSinceAccept |-> FALSE,
               cmdsSinceTick |-> 0, repliesSinceTick |-> 0,
               betweenCmds |-> 0, betweenReplies |-> 0,
               recv |-> [c \in 1..MaxChans |-> <<>>]]

\* simulator.New at the initial altitude of InitialPosition.
InitFrom(alts, pool, envs, speeds, vspeeds, headings, cap) ==
    InitAt(0, alts, pool, envs, speeds, vspeeds, headings, cap)

InitWith(pool, envs, speeds, vspeeds, headings, cap) ==
    InitFrom({InitialPosition.alt}, pool, envs, speeds, vspeeds, headings, cap)

NoEnvironment == <<>>
NoWind == <<[wind |-> <<>>]>>
WestWind == <<[wind |-> <<[direction |-> 270, speed |-> 50]>>]>>

SubmitNext ==
    \/ \E c \in CmdIds, p \in cmdPool, cancelled \in BOOLEAN : SubmitSend(c, p, cancelled)
    \/ \E c \in CmdIds : SubmitPreCancelled(c)
    \/ \E c \in CmdIds, p \in cmdPool : SubmitPark(c, p)
    \/ \E c \in CmdIds : SubmitCancel(c)
    \/ \E c \in CmdIds : SubmitTimeout(c)

(* The command intake: callers of SubmitCommand against an actor that is   *)
(* not started yet or consumes. *)
InitQueue == InitWith({StopCmd}, {NoEnvironment}, {0}, {0}, {0}, ActorBufferSize)

NextQueue ==
    \/ Start
    \/ HandleCommand
    \/ SubmitNext

SpecQueue == InitQueue /\ [][NextQueue]_vars

(* The actor's loop with ticks, commands and state requests. *)
NextLoop ==
    \/ Start
    \/ TickerFire
    \/ Tick
    \/ HandleCommand
    \/ StateReply
    \/ \E c \in CmdIds, p \in cmdPool : SubmitSend(c, p, FALSE)
    \/ \E q \in Queriers : GetPark(q)

SpecLoop == InitQueue /\ [][NextLoop]_vars

(* The actor flying: every kind of command the HTTP handlers submit. *)
InitFlight ==
    InitWith(ValidPool, {NoEnvironment}, {0}, {0}, {0}, ActorBufferSize)

NextFlight ==
    \/ Start
    \/ TickerFire
    \/ Tick
    \/ HandleCommand
    \/ \E c \in CmdIds, p \in cmdPool : SubmitSend(c, p, FALSE)

SpecFlight == InitFlight /\ [][NextFlight]_vars

(* The actor given what SubmitCommand accepts unchecked, until its context *)
(* is cancelled. *)
InitUnchecked ==
    InitWith(UncheckedPool \cup {StopCmd}, {NoEnvironment}, {0}, {0}, {0},
             ActorBufferSize)

NextUnchecked ==
    \/ NextFlight
    \/ CtxCancel
    \/ RunReturn

SpecUnchecked == InitUnchecked /\ [][NextUnchecked]_vars

(* The actor with no command, for the initial velocities, headings and     *)
(* environments a configuration may give. *)
InitIdle ==
    InitWith({}, {NoEnvironment, NoWind, WestWind}, {0, 100}, {0, -30, 20},
             {0, 90, 225}, ActorBufferSize)

NextIdle ==
    \/ Start
    \/ TickerFire
    \/ Tick

SpecIdle == InitIdle /\ [][NextIdle]_vars

(* The loop under the scheduling Go gives it: a case of the select that    *)
(* stays ready is eventually chosen (the choice among ready cases is       *)
(* uniformly random), and the ticker keeps firing.  Callers keep waiting.  *)
NextFairLoop ==
    \/ NextLoop
    \/ CtxCancel
    \/ RunReturn

LoopFairness ==
    /\ WF_vars(TickerFire)
    /\ WF_vars(Tick)
    /\ WF_vars(HandleCommand)
    /\ WF_vars(StateReply)
    /\ WF_vars(RunReturn)

FairLoop == InitQueue /\ [][NextFairLoop]_vars /\ LoopFairness

(* Shutdown: the actor with subscribers of its registry.  A subscriber     *)
(* unsubscribes when its own client goes away, which nothing forces.       *)
NextShutdown ==
    \/ Start
    \/ TickerFire
    \/ Tick
    \/ CtxCancel
    \/ RunReturn
    \/ \E id \in SubIds : Subscribe(id)
    \/ \E id \in SubIds : Unsubscribe(id)
    \/ \E c \in 1..MaxChans : Receive(c)

FairShutdown ==
    /\ InitQueue
    /\ [][NextShutdown]_vars
    /\ WF_vars(TickerFire) /\ WF_vars(Tick) /\ WF_vars(RunReturn)

(* The actor flying from the initial heading and velocity of a           *)
(* configuration file: config.Load and New check neither. *)
InitConfigured ==
    InitWith({GoToCmd(FarTarget, <<>>), HoldCmd}, {NoEnvironment},
             {0, MaxSpeed + 100}, {0}, {0, 405, -90}, ActorBufferSize)

SpecConfigured == InitConfigured /\ [][NextFlight]_vars

(* The actor near the ground: low initial altitudes, a descent, and a     *)
(* fast GoTo to a target on the ground close by. *)
GroundTarget == Pos(150, 0, 0)

InitDescent ==
    InitFrom({20, 50, InitialPosition.alt},
             {GoToCmd(GroundTarget, <<MaxSpeed>>), StopCmd}, {NoEnvironment},
             {0, 100}, {0, -30}, {0}, ActorBufferSize)

SpecDescent == InitDescent /\ [][NextFlight]_vars

(* The actor given GoTo commands that pass ValidateGoToCommand: speed   *)
(* absent, or any speed from 0 to maxSpeed. *)
InitValidated ==
    InitWith({GoToCmd(FarTarget, <<>>), GoToCmd(FarTarget, <<0>>),
              GoToCmd(FarTarget, <<MaxSpeed>>)},
             {NoEnvironment}, {0}, {0}, {0}, ActorBufferSize)

SpecValidated == InitValidated /\ [][NextFlight]_vars

(* The actor told to hold while cruising or at rest, with and without     *)
(* wind. *)
InitHold ==
    InitWith({HoldCmd, GoToCmd(FarTarget, <<MaxSpeed>>)}, {NoEnvironment, WestWind},
             {0, 100, MaxSpeed}, {0, 20}, {0, 90}, ActorBufferSize)

SpecHold == InitHold /\ [][NextFlight]_vars

(* Stop and Hold commands sent to an aircraft that is cruising or at full  *)
(* speed.                                                                  *)
InitStopHold ==
    InitWith({StopCmd, HoldCmd}, {NoEnvironment}, {DefaultSpeed, MaxSpeed},
             {0, 20}, {0}, ActorBufferSize)

SpecStopHold == InitStopHold /\ [][NextFlight]_vars

(* The actor, constructed climbing at the default speed, flying            *)
(* trajectories for TicksPerLap ticker periods: a lap of two waypoints     *)
(* that repeats, a single waypoint flown once, and a Hold.                 *)
BackTarget == Pos(-50, 0, 1000)
AheadTarget == Pos(150, 0, 1000)

LapCmd ==
    TrajectoryCmd(<<Waypoint(BackTarget, <<>>), Waypoint(AheadTarget, <<>>)>>, TRUE)
OnceCmd == TrajectoryCmd(<<Waypoint(NearTarget, <<>>)>>, FALSE)

InitTrajectory ==
    InitAt(MaxTicks - TicksPerLap, {InitialPosition.alt}, {LapCmd, OnceCmd, HoldCmd},
           {NoEnvironment}, {DefaultSpeed}, {20}, {0}, ActorBufferSize)

SpecTrajectory == InitTrajectory /\ [][NextFlight]_vars

(* An aircraft flying east in a west wind, idle and under commands that   *)
(* take several ticks.                                                     *)
InitWind ==
    InitWith({HoldCmd, GoToCmd(FarTarget, <<>>), LapCmd}, {WestWind},
             {DefaultSpeed, MaxSpeed}, {0, 20}, {90}, ActorBufferSize)

SpecWind == InitWind /\ [][NextFlight]_vars

(* The actor with a subscriber of its registry, who may subscribe again:  *)
(* ticks with no command, with a GoTo that completes and a Trajectory that *)
(* reaches its waypoint, among command intake and a state request.         *)
InitBroadcast ==
    InitWith({GoToCmd(NearTarget, <<>>), OnceCmd},
             {NoEnvironment}, {0}, {0}, {0}, ActorBufferSize)

NextBroadcast ==
    \/ Start
    \/ TickerFire
    \/ Tick
    \/ HandleCommand
    \/ StateReply
    \/ \E c \in CmdIds, p \in cmdPool : SubmitSend(c, p, FALSE)
    \/ GetPark(1)
    \/ Subscribe(1)

SpecBroadcast == InitBroadcast /\ [][NextBroadcast]_vars

(* The same, with commands that stay in the slot over the ticks.           *)
InitSnapshots ==
    InitWith({StopCmd, GoToCmd(FarTarget, <<>>)},
             {NoEnvironment}, {0}, {0}, {0}, ActorBufferSize)

SpecSnapshots == InitSnapshots /\ [][NextBroadcast]_vars

(* The actor turning on the spot: constructed on each of the eight        *)
(* compass headings and sent east or west with speed 0.                    *)
EastTarget == Pos(0, 3000, 1000)
WestTarget == Pos(0, -3000, 1000)

InitHeading ==
    InitWith({GoToCmd(EastTarget, <<0>>), GoToCmd(WestTarget, <<0>>)},
             {NoEnvironment}, {0}, {0}, {0, 45, 90, 135, 180, 225, 270, 315},
             ActorBufferSize)

SpecHeading == InitHeading /\ [][NextFlight]_vars

(* The actor, constructed at rest or at full speed, sent to a far target *)
(* at the default speed, at a speed below one step of the speed change     *)
(* rate, at the maximum speed and at speed 0.                              *)
SlowSpeed == 50

InitSpeed ==
    InitWith({GoToCmd(FarTarget, <<>>), GoToCmd(FarTarget, <<SlowSpeed>>),
              GoToCmd(FarTarget, <<MaxSpeed>>), GoToCmd(FarTarget, <<0>>)},
             {NoEnvironment}, {0, MaxSpeed}, {0}, {0}, ActorBufferSize)

SpecSpeed == InitSpeed /\ [][NextFlight]_vars

(* Construction: main calls simulator.New with the configuration         *)
(* config.Load read, which checks nothing, and starts the actor when New   *)
(* returned one.  Before the call there is no actor and no state.          *)
InitUnbuilt ==
    /\ \E rate \in {-1, 0, TickRateHz}, size \in {-1, 0, 1, CommandQueueSize},
          g \in {0, DefaultSpeed}, h \in {0, 90} :
          config = SimulationConfig(rate, size, InitialPosition, g, 0, h)
    /\ cmdPool = {}
    /\ environment = NoEnvironment
    /\ state = [lat |-> 0, lon |-> 0, alt |-> 0, gs |-> 0, vs |-> 0, hdg |-> 0,
                ts |-> 0, cmdInfo |-> <<>>, env |-> <<>>]
    /\ activeCommand = <<>>
    /\ trajectoryState = <<>>
    /\ commandQueue = <<>>
    /\ cmdSendq = <<>>
    /\ stateRequests = <<>>
    /\ subscribers = [i \in {} |-> 0]
    /\ chans = <<>>
    /\ bufferSize = ActorBufferSize
    /\ actor = "unbuilt"
    /\ ctxDone = FALSE
    /\ ticker = FALSE
    /\ clock = 0
    /\ submit = [c \in CmdIds |->
                   [pc |-> "idle", result |-> "none", cmd |-> <<>>,
                    preCancelled |-> FALSE, fullAtInvoke |-> FALSE,
                    sawRoom |-> FALSE, okBefore |-> {}]]
    /\ query = [q \in Queriers |-> [pc |-> "idle", result |-> "none", snap |-> <<>>]]
    /\ hist = [accepted |-> <<>>, handled |-> <<>>, taken |-> 0, replies |-> 0,
               ticks |-> 0, lastTick |-> "never", tickedSinceAccept |-> FALSE,
               cmdsSinceTick |-> 0, repliesSinceTick |-> 0,
               betweenCmds |-> 0, betweenReplies |-> 0,
               recv |-> [c \in 1..MaxChans |-> <<>>]]

\* sim, err := simulator.New(cfg.Simulation, ...): the actor is "idle" (made,
\* not started), there is "none" (an error came back) or the call panicked.
NewActor ==
    /\ actor = "unbuilt"
    /\ LET r == New(config, clock)
       IN IF r.err # "nil" THEN actor' = "none" /\ UNCHANGED state
          ELSE IF r.panicked THEN actor' = "panicked" /\ UNCHANGED state
          ELSE actor' = "idle" /\ state' = r.state[1]
    /\ UNCHANGED <<activeCommand, trajectoryState, pubVars, cfgVars, callVars,
                   ctxDone, ticker, clock, hist>>

NextNew ==
    \/ NewActor
    \/ Start
    \/ TickerFire
    \/ Tick

SpecNew == InitUnbuilt /\ [][NextNew]_vars

(* The request handlers of POST /command/goto and /command/trajectory:    *)
(* the validation pre-check, then SubmitCommand.  A position is in         *)
(* decimetres north and east of the origin, so the bounds of latitude and  *)
(* longitude are those of 90 and 180 degrees of arc.                       *)
MaxLatitude == 100000000
MaxLongitude == 200000000

\* validation.ValidatePosition: "nil" or the name of the error.
ValidatePosition(pos) ==
    IF pos.lat < -MaxLatitude \/ pos.lat > MaxLatitude THEN "ErrInvalidLatitude"
    ELSE IF pos.lon < -MaxLongitude \/ pos.lon > MaxLongitude THEN "ErrInvalidLongitude"
    ELSE IF pos.alt < 0 THEN "ErrInvalidAltitude"
    ELSE "nil"

\* A ValidateSpeed that wants a positive speed.
ValidateSpeedPositive(speed, maxSpeed) ==
    IF speed <= 0 THEN "ErrInvalidSpeed"
    ELSE IF speed > maxSpeed THEN "ErrSpeedExceedsMax"
    ELSE "nil"

\* validation.ValidateSpeed.
ValidateSpeed(speed, maxSpeed) ==
    IF speed < 0 THEN "ErrInvalidSpeed"
    ELSE IF speed > maxSpeed THEN "ErrSpeedExceedsMax"
    ELSE "nil"

\* validation.ValidateGoToCommand.
ValidateGoToCommand(cmd, maxSpeed) ==
    IF ValidatePosition(cmd.target) # "nil" THEN ValidatePosition(cmd.target)
    ELSE IF cmd.speed # <<>> THEN ValidateSpeed(cmd.speed[1], maxSpeed)
    ELSE "nil"

\* The loop of validation.ValidateTrajectoryCommand, from waypoint i on.
RECURSIVE ValidateWaypoints(_, _, _)
ValidateWaypoints(waypoints, i, maxSpeed) ==
    IF i > Len(waypoints) THEN "nil"
    ELSE LET wp == waypoints[i]
         IN IF ValidatePosition(wp.position) # "nil" THEN ValidatePosition(wp.position)
            ELSE IF wp.speed # <<>> /\ ValidateSpeed(wp.speed[1], maxSpeed) # "nil"
            THEN ValidateSpeed(wp.speed[1], maxSpeed)
            ELSE ValidateWaypoints(waypoints, i + 1, maxSpeed)

\* validation.ValidateTrajectoryCommand.
ValidateTrajectoryCommand(cmd, maxSpeed) ==
    IF Len(cmd.waypoints) = 0 THEN "ErrEmptyWaypoints"
    ELSE ValidateWaypoints(cmd.waypoints, 1, maxSpeed)

\* The status of the HTTP response for the error a handler ends with.
StatusCode(err) ==
    CASE err = "ok" -> 200
      [] err \in {"ErrInvalidLatitude", "ErrInvalidLongitude", "ErrInvalidAltitude",
                  "ErrInvalidSpeed", "ErrSpeedExceedsMax", "ErrEmptyWaypoints"} -> 400
      [] err = "QueueFull" -> 503
      [] OTHER -> 500

\* The handler answers request c, carrying command p, with status 400.
Reject(c, p, err) ==
    /\ Fresh(c)
    /\ submit' = [submit EXCEPT ![c] =
                     [pc |-> "done", result |-> err,
                      cmd |-> <<[id |-> c, type |-> p.type, goto |-> p.goto,
                                 trajectory |-> p.trajectory]>>,
                      preCancelled |-> FALSE,
                      fullAtInvoke |-> ~CanSend(commandQueue),
                      sawRoom |-> CanSend(commandQueue),
                      okBefore |-> {d \in CmdIds : submit[d].result = "ok"}]]
    /\ UNCHANGED <<simVars, pubVars, cfgVars, query, cmdSendq, stateRequests,
                   commandQueue, actor, ctxDone, ticker, clock, hist>>

\* A GoTo handler that submits what it is given.
HandlerGoToUnchecked(c, p) ==
    /\ p.type = "goto"
    /\ SubmitSend(c, p, FALSE) \/ SubmitPark(c, p)

\* CommandHandler.GoTo, up to the return of its SubmitCommand's select.
HandlerGoTo(c, p) ==
    /\ p.type = "goto"
    /\ LET err == ValidateGoToCommand(p.goto[1], MaxSpeed)
       IN IF err # "nil"
          THEN Reject(c, p, err)
          ELSE SubmitSend(c, p, FALSE) \/ SubmitPark(c, p)

\* CommandHandler.Trajectory, likewise.
HandlerTrajectory(c, p) ==
    /\ p.type = "trajectory"
    /\ LET err == ValidateTrajectoryCommand(p.trajectory[1], MaxSpeed)
       IN IF err # "nil"
          THEN Reject(c, p, err)
          ELSE SubmitSend(c, p, FALSE) \/ SubmitPark(c, p)

\* Requests that pass the pre-check, and requests that fail it on the
\* latitude, the longitude, the altitude, the speed or the waypoint list.
GoodRequests ==
    {GoToCmd(FarTarget, <<>>), GoToCmd(NearTarget, <<MaxSpeed>>),
     TrajectoryCmd(<<Waypoint(NearTarget, <<0>>)>>, FALSE)}
BadRequests ==
    {GoToCmd(Pos(MaxLatitude + 1, 0, 1000), <<>>),
     GoToCmd(Pos(0, -MaxLongitude - 1, 1000), <<>>),
     GoToCmd(Pos(0, 0, -1), <<>>),
     GoToCmd(NearTarget, <<-1>>),
     GoToCmd(NearTarget, <<MaxSpeed + 1>>),
     TrajectoryCmd(<<>>, FALSE),
     TrajectoryCmd(<<Waypoint(NearTarget, <<>>),
                     Waypoint(Pos(-MaxLatitude - 1, 0, 1000), <<>>)>>, TRUE),
     TrajectoryCmd(<<Waypoint(NearTarget, <<MaxSpeed + 1>>)>>, FALSE)}

InitRequests ==
    InitWith(GoodRequests \cup BadRequests, {NoEnvironment}, {0}, {0}, {0},
             ActorBufferSize)

NextRequests ==
    \/ Start
    \/ HandleCommand
    \/ \E c \in CmdIds, p \in cmdPool : HandlerGoTo(c, p)
    \/ \E c \in CmdIds, p \in cmdPool : HandlerTrajectory(c, p)
    \/ \E c \in CmdIds : SubmitTimeout(c)

SpecRequests == InitRequests /\ [][NextRequests]_vars

(* The GoTo handler: each request submits its command and then asks for *)
(* the state. *)
InitHandler ==
    InitWith({GoToCmd(FarTarget, <<>>)}, {NoEnvironment}, {0}, {0}, {0},
             ActorBufferSize)

NextHandler ==
    \/ Start
    \/ TickerFire
    \/ Tick
    \/ HandleCommand
    \/ StateReply
    \/ \E c \in CmdIds, p \in cmdPool : SubmitSend(c, p, FALSE)
    \/ \E c \in CmdIds : HandlerGetState(c)

SpecHandler == InitHandler /\ [][NextHandler]_vars

(* The GoTo handler given targets and speeds on and around the bounds of *)
(* the pre-check, one or several of them out of range.                     *)
EdgeRequests ==
    {GoToCmd(Pos(MaxLatitude, MaxLongitude, 0), <<0>>),
     GoToCmd(Pos(-MaxLatitude, -MaxLongitude, 1000), <<MaxSpeed>>),
     GoToCmd(NearTarget, <<>>),
     GoToCmd(Pos(MaxLatitude + 1, MaxLongitude + 1, -1), <<-1>>),
     GoToCmd(Pos(-MaxLatitude - 1, 0, 1000), <<>>),
     GoToCmd(Pos(0, MaxLongitude + 1, -1), <<MaxSpeed + 1>>),
     GoToCmd(Pos(0, -MaxLongitude - 1, 1000), <<>>),
     GoToCmd(Pos(0, 0, -1), <<-1>>),
     GoToCmd(NearTarget, <<-1>>),
     GoToCmd(NearTarget, <<MaxSpeed + 1>>)}

InitValidate ==
    InitWith(EdgeRequests, {NoEnvironment}, {0}, {0}, {0}, ActorBufferSize)

NextValidate ==
    \/ Start
    \/ HandleCommand
    \/ \E c \in CmdIds, p \in cmdPool : HandlerGoTo(c, p)
    \/ \E c \in CmdIds : SubmitTimeout(c)

SpecValidate == InitValidate /\ [][NextValidate]_vars

(* The actor's loop with every kind of command in the slot: a GoTo and a *)
(* Trajectory that complete, a Hold and a Stop, among ticks and one state  *)
(* request. *)
InitSlot ==
    InitWith({StopCmd, HoldCmd, GoToCmd(NearTarget, <<>>), OnceCmd},
             {NoEnvironment}, {0}, {0}, {0}, ActorBufferSize)

NextSlot ==
    \/ Start
    \/ TickerFire
    \/ Tick
    \/ HandleCommand
    \/ StateReply
    \/ \E c \in CmdIds, p \in cmdPool : SubmitSend(c, p, FALSE)
    \/ GetPark(1)

SpecSlot == InitSlot /\ [][NextSlot]_vars

(* The same loop with the aircraft climbing at the default speed when the  *)
(* commands arrive.                                                        *)
InitMoving ==
    InitWith({StopCmd, GoToCmd(FarTarget, <<>>), OnceCmd},
             {NoEnvironment}, {DefaultSpeed}, {20}, {0}, ActorBufferSize)

SpecMoving == InitMoving /\ [][NextSlot]_vars

(* Callers of GetState against an actor that may not be started, runs, or *)
(* has returned.  A caller's timer fires once it has waited for its period. *)
InitCruise ==
    InitWith({}, {NoEnvironment}, {100}, {20}, {90}, ActorBufferSize)

NextQuery ==
    \/ Start
    \/ TickerFire
    \/ Tick
    \/ StateReply
    \/ CtxCancel
    \/ RunReturn
    \/ \E q \in Queriers : GetPark(q)
    \/ \E q \in Queriers : GetCancel(q)
    \/ \E q \in Queriers : GetTimeout(q)

FairQuery ==
    /\ InitCruise
    /\ [][NextQuery]_vars
    /\ \A q \in Queriers : WF_vars(GetTimeout(q))

(* The broadcast registry on its own: NewStatePublisher(PubBufferSize),    *)
(* concurrent Subscribe and Unsubscribe, subscribers that drain or stall,  *)
(* and a producer that calls Publish with successive snapshots.            *)
InitPub == InitWith({}, {NoEnvironment}, {0}, {0}, {0}, PubBufferSize)

\* One call publisher.Publish(snapshot); the snapshots are told apart by
\* their timestamps.
PubPublish ==
    /\ clock < MaxPublish
    /\ clock' = clock + 1
    /\ chans' = Publish(subscribers, chans, bufferSize, [state EXCEPT !.ts = clock + 1])
    /\ UNCHANGED <<simVars, subscribers, cfgVars, callVars, actor, ctxDone, ticker, hist>>

NextPub ==
    \/ \E id \in SubIds : Subscribe(id)
    \/ \E id \in SubIds : Unsubscribe(id)
    \/ \E c \in 1..MaxChans : Receive(c)
    \/ PubPublish

SpecPub == InitPub /\ [][NextPub]_vars

\* The registry's own operations and the producer, with no subscriber
\* reading its queue.
NextRegistry ==
    \/ \E id \in SubIds : Subscribe(id)
    \/ \E id \in SubIds : Unsubscribe(id)
    \/ PubPublish

SpecRegistry == InitPub /\ [][NextRegistry]_vars

---------------------------------------------------------------------------
(* Claims about the broadcast registry. *)

Subscribed(c) == \E id \in DOMAIN subscribers : subscribers[id] = c

\* C1: Publish never waits: it can run whatever the fill level of the
\* subscribers' queues, it leaves a full queue as it is (the snapshot is
\* dropped for that subscriber only) and appends the snapshot to the queue of
\* every other subscriber.
C1_PublishNeverBlocks ==
    [][/\ clock < MaxPublish => ENABLED PubPublish
       /\ clock' # clock =>
             \A c \in DOMAIN chans :
                chans'[c] =
                   IF Subscribed(c) /\ Len(chans[c].buf) < bufferSize
                   THEN [chans[c] EXCEPT !.buf = Append(@, [state EXCEPT !.ts = clock'])]
                   ELSE chans[c]]_vars

\* C1 witness: the latest snapshot was dropped for a subscriber whose queue
\* was full and delivered to another subscriber.
C1_Witness ==
    \E c1, c2 \in DOMAIN chans :
       /\ Subscribed(c1) /\ Subscribed(c2)
       /\ Len(chans[c1].buf) = bufferSize
       /\ chans[c1].buf[Len(chans[c1].buf)].ts < clock
       /\ chans[c2].buf # <<>>
       /\ chans[c2].buf[Len(chans[c2].buf)].ts = clock

---------------------------------------------------------------------------
(* Claims about the command intake and the loop. *)

IsPrefix(a, b) == Len(a) <= Len(b) /\ SubSeq(b, 1, Len(a)) = a

\* The position of x in a sequence without repetitions, 0 when absent.
IndexOf(seq, x) == IF \E i \in DOMAIN seq : seq[i] = x
                   THEN CHOOSE i \in DOMAIN seq : seq[i] = x ELSE 0

\* C2: SubmitCommand returns QueueFull only when the queue held
\* commandQueueSize commands from the call to the expiry of its wait, a call
\* succeeds only when the queue had room for it, a caller waits only while
\* the queue is full, and with the actor not started the calls that are not
\* cancelled succeed exactly while fewer than commandQueueSize have succeeded
\* before them and fail with QueueFull afterwards.
C2_QueueFullIffFull ==
    /\ \A c \in CmdIds :
          /\ submit[c].result = "QueueFull" =>
                submit[c].fullAtInvoke /\ ~submit[c].sawRoom
          /\ submit[c].result = "ok" => submit[c].sawRoom
          /\ submit[c].pc = "parked" => Len(commandQueue) = CommandQueueSize
    /\ Len(commandQueue) <= CommandQueueSize
    /\ actor = "idle" =>
          \A c \in CmdIds :
             submit[c].result \in {"ok", "QueueFull"} =>
                (submit[c].result = "ok"
                   <=> Cardinality(submit[c].okBefore) < CommandQueueSize)

\* C2 witness: the actor is not started, commandQueueSize calls have
\* succeeded and a later one has failed with QueueFull.
C2_Witness ==
    /\ actor = "idle"
    /\ Len(hist.accepted) = CommandQueueSize
    /\ \E c \in CmdIds :
          submit[c].result = "QueueFull"
          /\ Cardinality(submit[c].okBefore) = CommandQueueSize

\* C5: a call whose caller's context was already done when it started
\* returns Cancelled and its command is not in the queue.
C5_PreCancelledNeverQueued ==
    \A c \in CmdIds :
       submit[c].preCancelled =>
          /\ submit[c].result = "Cancelled"
          /\ \A i \in DOMAIN hist.accepted : hist.accepted[i] # c

\* C9: the commands the actor has made active are, in order, the first of
\* the commands accepted into the queue (none skipped, none twice), and a
\* command whose call returned success before another call started becomes
\* active before that other command.
C9_FifoOrder ==
    /\ IsPrefix(hist.handled, hist.accepted)
    /\ \A c1, c2 \in CmdIds :
          (c1 \in submit[c2].okBefore /\ IndexOf(hist.handled, c2) > 0) =>
             /\ IndexOf(hist.handled, c1) > 0
             /\ IndexOf(hist.handled, c1) < IndexOf(hist.handled, c2)
    /\ \A i, j \in DOMAIN hist.handled :
          hist.handled[i] = hist.handled[j] => i = j

\* C9 witness: two commands, the second submitted after the first call
\* returned, have both become active.
C9_Witness ==
    \E c1, c2 \in CmdIds :
       /\ c1 \in submit[c2].okBefore
       /\ IndexOf(hist.handled, c2) > 0

C4_TerminatesOnlyOnCancel ==
    \/ actor \in {"idle", "running"}
    \/ actor = "returned" /\ ctxDone

\* C6: once the cancellation has fired and the loop has returned, every
\* queue still registered with the broadcast registry is eventually closed.
C6_SubscribersSeeClose ==
    \A c \in 1..MaxChans :
       [](( /\ actor = "returned" /\ ctxDone
            /\ c \in DOMAIN chans /\ Subscribed(c) )
          => <>(c \in DOMAIN chans /\ chans[c].closed))

\* C7: when a Stop is the active command and a tick has run since it was
\* taken, the ground speed and the vertical speed of the state are zero.
C7_StopZeroesMotion ==
    ( /\ activeCommand # <<>>
      /\ activeCommand[1].type = "stop"
      /\ hist.tickedSinceAccept )
    => (state.gs = 0 /\ state.vs = 0)

HasWind == environment # <<>> /\ environment[1].wind # <<>>

IdleCalmTick == hist'.ticks # hist.ticks /\ activeCommand = <<>> /\ ~HasWind

---------------------------------------------------------------------------
(* Claims about GetState and Run. *)

\* C11: a GetState call ends with exactly one of a snapshot, Timeout or
\* Cancelled.  A snapshot is returned only by a running actor that picked
\* the request up, and it is the actor's state at that step, which the step
\* leaves as it is; a call that waits eventually ends, whether or not the
\* actor runs.
C11_GetStateTerminates ==
    /\ [](\A q \in Queriers :
            /\ query[q].pc = "done" <=> query[q].result \in {"ok", "Timeout", "Cancelled"}
            /\ query[q].result = "ok" <=> query[q].snap # <<>>
            /\ query[q].pc = "parked" <=> \E i \in DOMAIN stateRequests : stateRequests[i] = q)
    /\ [][\A q \in Queriers :
            /\ query[q].pc = "done" => query'[q] = query[q]
            /\ (query'[q].result = "ok" /\ query[q].result # "ok") =>
                  /\ actor = "running"
                  /\ query[q].pc = "parked"
                  /\ query'[q].snap = <<state>>
                  /\ state' = state]_vars
    /\ \A q \in Queriers : (query[q].pc = "parked") ~> (query[q].pc = "done")

C11_Witness ==
    /\ actor = "returned"
    /\ hist.ticks > 0
    /\ \E q1, q2 \in Queriers :
          /\ query[q1].result = "ok"
          /\ query[q1].snap[1].ts > 0
          /\ query[q2].result = "Timeout"

\* C12: the snapshot returned to the GetState call that a handler makes
\* after its SubmitCommand(c) returned success is taken after the actor has
\* consumed c.
C12_ReadYourWrites ==
    [][\A c \in CmdIds \cap Queriers :
          (query'[c].result = "ok" /\ query[c].result # "ok") =>
             IndexOf(hist.handled, c) > 0]_vars

\* C13: once the cancellation has fired a running loop eventually returns;
\* it returns only because of the cancellation; and after it has returned
\* no tick, command or state request is serviced and the state stays as it is.
C13_RunReturnsOnCancel ==
    /\ [](actor = "returned" => ctxDone)
    /\ [][actor = "returned" =>
             /\ actor' = "returned"
             /\ hist'.ticks = hist.ticks
             /\ hist'.handled = hist.handled
             /\ hist'.replies = hist.replies
             /\ <<state, activeCommand, trajectoryState>>' =
                   <<state, activeCommand, trajectoryState>>
             /\ \A q \in Queriers : query'[q].result = query[q].result]_vars
    /\ (ctxDone /\ actor = "running") ~> (actor = "returned")

\* C13 witness: the loop has returned with a tick pending, a command queued
\* and a state request waiting.
C13_Witness ==
    /\ actor = "returned"
    /\ clock > hist.ticks
    /\ commandQueue # <<>>
    /\ stateRequests # <<>>

---------------------------------------------------------------------------
(* More claims about the broadcast registry. *)

\* C14: no subscriber's queue ever holds more snapshots than the capacity
\* the registry was created with, also when the subscriber never drains.
C14_QueueWithinCapacity ==
    /\ bufferSize = PubBufferSize
    /\ \A c \in DOMAIN chans : Len(chans[c].buf) <= bufferSize

\* C14 witness: a subscriber that has taken nothing (the first snapshot is
\* still at the head of its queue) after more Publish calls than its queue
\* holds.
C14_Witness ==
    /\ clock > bufferSize
    /\ \E c \in DOMAIN chans :
          /\ Subscribed(c)
          /\ Len(chans[c].buf) = bufferSize
          /\ chans[c].buf[1].ts = 1

\* C15: a Publish appends its snapshot to the queue of every subscriber
\* that is registered when it starts and whose queue has room, whatever the
\* queues of the other subscribers hold.
C15_RoomMeansDelivered ==
    [][clock' # clock =>
          \A c \in DOMAIN chans :
             (Subscribed(c) /\ Len(chans[c].buf) < bufferSize) =>
                /\ Len(chans'[c].buf) = Len(chans[c].buf) + 1
                /\ chans'[c].buf[Len(chans'[c].buf)].ts = clock']_vars

\* C15 witness: after MaxPublish snapshots one subscriber still holds the
\* first ones in a full queue, and another, which took all the earlier
\* ones, holds the latest.
C15_Witness ==
    /\ clock = MaxPublish
    /\ \E c1, c2 \in DOMAIN chans :
          /\ Subscribed(c1) /\ Subscribed(c2)
          /\ Len(chans[c1].buf) = bufferSize
          /\ chans[c1].buf[1].ts = 1
          /\ Len(chans[c2].buf) = 1
          /\ chans[c2].buf[1].ts = clock

\* What subscriber channel c has delivered and still holds, as the
\* timestamps of the snapshots (Publish call k publishes timestamp k).
Stream(c) == hist.recv[c] \o [i \in DOMAIN chans[c].buf |-> chans[c].buf[i].ts]

\* C16: what a subscriber receives is a subsequence of the published
\* snapshots, in publish order, none twice.
C16_InPublishOrder ==
    \A c \in DOMAIN chans :
       /\ \A i \in DOMAIN Stream(c) : Stream(c)[i] \in 1..clock
       /\ \A i, j \in DOMAIN Stream(c) : i < j => Stream(c)[i] < Stream(c)[j]

\* C16 witness: a subscriber has received snapshots and a later one reaches
\* it after one in between was dropped.
C16_Witness ==
    \E c \in DOMAIN chans :
       /\ Len(hist.recv[c]) >= 1
       /\ \E i \in DOMAIN Stream(c) :
             i + 1 \in DOMAIN Stream(c) /\ Stream(c)[i + 1] > Stream(c)[i] + 1

\* C17: Unsubscribe(id) takes id out of the registry and closes its queue,
\* leaving what the queue holds; a closed queue is never registered, stays
\* closed, and nothing is enqueued into it any more.
C17_UnsubscribeCloses ==
    /\ [](\A c \in DOMAIN chans : chans[c].closed => ~Subscribed(c))
    /\ [][/\ \A id \in DOMAIN subscribers :
                id \notin DOMAIN subscribers' =>
                   /\ chans'[subscribers[id]].closed
                   /\ chans'[subscribers[id]].buf = chans[subscribers[id]].buf
          /\ \A c \in DOMAIN chans :
                chans[c].closed =>
                   /\ chans'[c].closed
                   /\ \/ chans'[c].buf = chans[c].buf
                      \/ /\ chans[c].buf # <<>>
                         /\ chans'[c].buf = Tail(chans[c].buf)]_vars

\* C17 witness: a closed queue still holds a snapshot, and a Publish has
\* happened since that snapshot.
C17_Witness ==
    \E c \in DOMAIN chans :
       /\ chans[c].closed
       /\ chans[c].buf # <<>>
       /\ chans[c].buf[Len(chans[c].buf)].ts < clock
       /\ Len(chans[c].buf) < bufferSize

\* C18: Subscribe(id) registers the queue it returns under id, in place of
\* the queue id had: the subscriber count grows only for a new id, the
\* other subscribers keep their queues, and a queue that is no longer
\* registered is never registered again and gets nothing more.
C18_ResubscribeReplaces ==
    [][/\ Len(chans') > Len(chans) =>
             \E id \in DOMAIN subscribers' :
                /\ subscribers'[id] = Len(chans')
                /\ chans'[Len(chans')] = NewChan
                /\ DOMAIN subscribers' = DOMAIN subscribers \cup {id}
                /\ SubscriberCount' =
                      SubscriberCount + (IF id \in DOMAIN subscribers THEN 0 ELSE 1)
                /\ \A i \in DOMAIN subscribers \ {id} : subscribers'[i] = subscribers[i]
       /\ \A c \in DOMAIN chans :
             ~Subscribed(c) =>
                /\ ~(\E id \in DOMAIN subscribers' : subscribers'[id] = c)
                /\ Len(chans'[c].buf) <= Len(chans[c].buf)]_vars

\* C18 witness: a queue that was replaced (open, not registered) holds an
\* earlier snapshot, and the registered queue holds the latest one.
C18_Witness ==
    /\ SubscriberCount = 1
    /\ \E c1, c2 \in DOMAIN chans :
          /\ ~chans[c1].closed /\ ~Subscribed(c1)
          /\ chans[c1].buf # <<>>
          /\ chans[c1].buf[Len(chans[c1].buf)].ts < clock
          /\ Subscribed(c2)
          /\ chans[c2].buf # <<>>
          /\ chans[c2].buf[Len(chans[c2].buf)].ts = clock

---------------------------------------------------------------------------
(* Claims about the ranges of the state. *)

\* C19: once a tick has run, the heading of the actor's state is in
\* [0, 360), whatever commands were taken.
C19_HeadingInRange == hist.ticks > 0 => (0 <= state.hdg /\ state.hdg < 360)

\* C20: once a tick has run, the ground speed of the actor's state is in
\* [0, maxSpeed], whatever commands were taken.
C20_GroundSpeedInRange == hist.ticks > 0 => (0 <= state.gs /\ state.gs <= MaxSpeed)

---------------------------------------------------------------------------
(* Claims about the behaviour step of a tick. *)

TickStep == hist'.ticks # hist.ticks

Active(type) == activeCommand # <<>> /\ activeCommand[1].type = type

\* The great-circle distance from the aircraft to a position.
DistanceTo(p) == Haversine(state.lat, state.lon, p.lat, p.lon)

Place(st) == <<st.lat, st.lon, st.alt>>

\* C22: a tick with a GoTo active whose target is closer than
\* positionTolerance clears the active command and zeroes ground and
\* vertical speed, and leaves position and heading as they were; a tick with
\* the target farther away keeps the command.
C22_GoToCompletes ==
    [][(TickStep /\ Active("goto")) =>
          IF DistanceTo(activeCommand[1].goto[1].target) < PositionTolerance
          THEN /\ activeCommand' = <<>>
               /\ state'.gs = 0 /\ state'.vs = 0
               /\ Place(state') = Place(state)
               /\ state'.hdg = state.hdg
          ELSE activeCommand' = activeCommand]_vars

\* C22 witness: after a tick that moved the aircraft, a GoTo to a target
\* within tolerance was taken and the next tick completed it.
C22_Witness ==
    /\ hist.ticks = 2 /\ hist.lastTick = "goto" /\ hist.tickedSinceAccept
    /\ activeCommand = <<>>
    /\ state.gs = 0 /\ state.vs = 0
    /\ state.lat # InitialPosition.lat

Motion(st) == <<st.lat, st.lon, st.alt, st.gs, st.vs, st.hdg>>

\* C23: a GoTo that stays active gets closer to completion: a tick that
\* does not complete it changes the position, the heading or the velocity.
\* (A tick that changes none of them is repeated by every later tick, and
\* the distance to the target never falls below positionTolerance.)
C23_GoToProgresses ==
    [][(TickStep /\ Active("goto") /\ activeCommand' = activeCommand) =>
          Motion(state') # Motion(state)]_vars

Waypoints == activeCommand[1].trajectory[1].waypoints
Loops == activeCommand[1].trajectory[1].loop
Index == trajectoryState[1]
GoToStepToward(wp) ==
    executeGoTo(Sim, <<[target |-> wp.position, speed |-> wp.speed]>>, DeltaTime)
Flying(cmd) ==
    Active("trajectory") /\ activeCommand[1].trajectory = cmd.trajectory
InFlight == Active("trajectory") /\ trajectoryState # <<>> /\ Index < Len(Waypoints)

\* C25: on a tick with a Trajectory active and a current waypoint: within
\* positionTolerance of waypoints[index] the index grows by exactly one, the
\* command stays active and the aircraft is left as it is; otherwise the
\* index stays and a GoTo step toward waypoints[index] is run.  The index
\* never skips a waypoint.
C25_WaypointAdvance ==
    [][(TickStep /\ InFlight) =>
          /\ activeCommand' = activeCommand
          /\ IF DistanceTo(Waypoints[Index + 1].position) < PositionTolerance
             THEN /\ trajectoryState' = <<Index + 1>>
                  /\ Motion(state') = Motion(state)
             ELSE /\ trajectoryState' = trajectoryState
                  /\ Motion(state') = Motion(GoToStepToward(Waypoints[Index + 1]).state)
                  /\ Motion(state') # Motion(state)]_vars

\* Both waypoints of the lap were reached in turn, with a leg flown between.
C25_Witness ==
    /\ Flying(LapCmd)
    /\ trajectoryState = <<2>>
    /\ state.lat > InitialPosition.lat
    /\ hist.lastTick = "trajectory"

\* C26: a Trajectory with loop=false stays active while its index is below
\* the number of waypoints; on the tick that finds the index at the number
\* of waypoints (the tick after the last waypoint was reached) the active
\* command is cleared, the trajectory progress is discarded and ground and
\* vertical speed become zero, with the aircraft where it was.
C26_TrajectoryCompletes ==
    [][(TickStep /\ Active("trajectory") /\ trajectoryState # <<>> /\ ~Loops) =>
          IF Index >= Len(Waypoints)
          THEN /\ activeCommand' = <<>>
               /\ trajectoryState' = <<>>
               /\ state'.gs = 0 /\ state'.vs = 0
               /\ Place(state') = Place(state) /\ state'.hdg = state.hdg
          ELSE activeCommand' = activeCommand /\ trajectoryState' # <<>>]_vars

\* The one-waypoint trajectory has completed, two ticks after it was
\* accepted in climbing flight.
C26_Witness ==
    /\ activeCommand = <<>> /\ trajectoryState = <<>>
    /\ hist.lastTick = "trajectory" /\ hist.tickedSinceAccept
    /\ hist.handled # <<>>
    /\ state.gs = 0 /\ state.vs = 0
    /\ state.alt = InitialPosition.alt

\* C27: a tick never ends a Trajectory with loop=true and at least one
\* waypoint, and only an accepted command takes it out of the slot.  On the
\* tick that finds the index at the number of waypoints (after the last
\* waypoint was reached) the index returns to 0 and waypoint 0 is the
\* target: the aircraft takes a GoTo step toward it, or, already within
\* positionTolerance of it, counts it as reached.
C27_LoopRestarts ==
    [][(Active("trajectory") /\ trajectoryState # <<>> /\ Loops
          /\ Len(Waypoints) >= 1) =>
          /\ TickStep =>
                /\ activeCommand' = activeCommand
                /\ Index >= Len(Waypoints) =>
                      IF DistanceTo(Waypoints[1].position) < PositionTolerance
                      THEN trajectoryState' = <<1>> /\ Motion(state') = Motion(state)
                      ELSE /\ trajectoryState' = <<0>>
                           /\ Motion(state') = Motion(GoToStepToward(Waypoints[1]).state)
          /\ activeCommand' # activeCommand =>
                hist'.handled # hist.handled /\ activeCommand' # <<>>]_vars

\* The lap, the only command accepted, has been flown once and the aircraft
\* has turned back toward waypoint 0.
C27_Witness ==
    /\ Flying(LapCmd) /\ Len(hist.handled) = 1
    /\ trajectoryState = <<0>>
    /\ hist.lastTick = "trajectory"
    /\ state.lat > 100 /\ state.hdg = 45 /\ state.alt = InitialPosition.alt

\* C28: in every state between loop iterations trajectory progress exists
\* exactly when the active command is a Trajectory.  Accepting a Trajectory
\* creates it at index 0 (also over another Trajectory), accepting any other
\* command discards it, and a tick that completes the Trajectory discards it.
C28_ProgressIffTrajectory ==
    /\ [](trajectoryState # <<>> <=> Active("trajectory"))
    /\ [][/\ hist'.handled # hist.handled =>
                IF activeCommand'[1].type = "trajectory"
                THEN trajectoryState' = <<0>>
                ELSE trajectoryState' = <<>>
          /\ (TickStep /\ Active("trajectory") /\ activeCommand' = <<>>) =>
                trajectoryState' = <<>>]_vars

\* A Hold has replaced a trajectory that was being flown.
C28_Witness ==
    /\ Active("hold") /\ trajectoryState = <<>>
    /\ Len(hist.handled) >= 2
    /\ hist.lastTick = "trajectory" /\ ~hist.tickedSinceAccept
    /\ state.lat > InitialPosition.lat

\* The error the pre-check of its handler finds in a command ("nil": none).
Validate(cmd) ==
    IF cmd.type = "goto" THEN ValidateGoToCommand(cmd.goto[1], MaxSpeed)
    ELSE ValidateTrajectoryCommand(cmd.trajectory[1], MaxSpeed)

\* C29: a GoTo or Trajectory request whose command fails validation is
\* answered with status 400 as soon as the handler has run, and its command
\* is never sent: every command waiting to be sent, in the intake queue or
\* accepted by the actor passed the pre-check.
C29_InvalidRejected ==
    /\ \A c \in CmdIds :
          (submit[c].cmd # <<>> /\ Validate(submit[c].cmd[1]) # "nil") =>
             /\ submit[c].pc = "done"
             /\ submit[c].result = Validate(submit[c].cmd[1])
             /\ StatusCode(submit[c].result) = 400
             /\ IndexOf(hist.accepted, c) = 0
             /\ IndexOf(cmdSendq, c) = 0
    /\ \A i \in 1..Len(commandQueue) : Validate(commandQueue[i]) = "nil"
    /\ activeCommand # <<>> => Validate(activeCommand[1]) = "nil"

\* An invalid GoTo and an invalid Trajectory were rejected while a valid
\* request went through to the actor.
C29_Witness ==
    /\ \E c \in CmdIds :
          /\ submit[c].cmd # <<>> /\ submit[c].cmd[1].type = "goto"
          /\ submit[c].result = "ErrSpeedExceedsMax"
    /\ \E c \in CmdIds :
          /\ submit[c].cmd # <<>> /\ submit[c].cmd[1].type = "trajectory"
          /\ submit[c].result = "ErrInvalidLatitude"
    /\ activeCommand # <<>>
    /\ commandQueue = <<>>

\* The active command is complete: a GoTo within positionTolerance of its
\* target, or a Trajectory with loop=false whose index has passed the last
\* waypoint.
Completing ==
    \/ Active("goto")
         /\ DistanceTo(activeCommand[1].goto[1].target) < PositionTolerance
    \/ Active("trajectory") /\ trajectoryState # <<>> /\ ~Loops
         /\ Index >= Len(Waypoints)

\* C30: the active command slot changes only when the actor accepts a
\* command, which puts that command in the slot whatever was there, or on a
\* tick that completes a GoTo or a Trajectory, which empties it.  A tick
\* with a Hold, a Stop or an incomplete command in the slot and a state
\* reply leave the slot as it is.
C30_SlotChanges ==
    [][/\ hist'.handled # hist.handled => activeCommand' = <<Head(commandQueue)>>
       /\ TickStep =>
             IF Completing THEN activeCommand' = <<>>
             ELSE activeCommand' = activeCommand
       /\ hist'.replies # hist.replies => activeCommand' = activeCommand
       /\ activeCommand' # activeCommand =>
             hist'.handled # hist.handled \/ (TickStep /\ Completing)]_vars

\* A Hold, ticked twice and asked for the state, is still in the slot after
\* a completed command before it.
C30_Witness ==
    /\ Active("hold") /\ hist.lastTick = "hold" /\ hist.tickedSinceAccept
    /\ hist.ticks = MaxTicks /\ hist.replies > 0
    /\ Len(hist.handled) >= 2
    /\ state.gs = 0

\* C31: a tick ends with one Publish of the state as the tick leaves it,
\* timestamp included: every subscriber's channel (with room) gets exactly
\* that snapshot appended and no other channel changes, whatever command is
\* active.  Accepting a command and answering a state request publish
\* nothing.
C31_TickPublishesOnce ==
    [][/\ TickStep =>
             /\ state'.ts = clock
             /\ \A c \in DOMAIN chans :
                   IF Subscribed(c) /\ Len(chans[c].buf) < bufferSize
                   THEN chans'[c] = [chans[c] EXCEPT !.buf = Append(@, state')]
                   ELSE chans'[c] = chans[c]
       /\ (hist'.handled # hist.handled \/ hist'.replies # hist.replies) =>
             chans' = chans]_vars

\* A subscriber holds the snapshots of two ticks, the later one of the tick
\* that completed a GoTo, and a state request was answered.
C31_Witness ==
    /\ hist.lastTick = "goto" /\ hist.tickedSinceAccept /\ activeCommand = <<>>
    /\ hist.replies > 0
    /\ \E c \in DOMAIN chans :
          /\ Len(chans[c].buf) = 2
          /\ chans[c].buf[2] = state
          /\ chans[c].buf[1].ts < state.ts

\* The bearing of the active GoTo's target.
TargetBearing ==
    Bearing(state.lat, state.lon, activeCommand[1].goto[1].target.lat,
            activeCommand[1].goto[1].target.lon)

\* C32: on a GoTo tick, with current heading and bearing in [0, 360), the
\* signed difference adjustHeading computes lies in (-180, +180], and the
\* heading after the tick is in [0, 360), at most headingChangeRate * dt
\* from the heading before and on the shorter arc toward the bearing.
C32_ShortestArc ==
    [][(TickStep /\ Active("goto") /\ activeCommand' = activeCommand) =>
          LET diff == headingDiff(state.hdg, TargetBearing)
              turn == headingDiff(state.hdg, state'.hdg)
          IN /\ state.hdg \in 0..359 /\ TargetBearing \in 0..359
             /\ diff > -180 /\ diff <= 180
             /\ state'.hdg \in 0..359
             /\ Abs(turn) <= HeadingChangeRate * DeltaTime
             /\ Abs(turn) <= Abs(diff)
             /\ turn * diff >= 0]_vars

\* The speed the active GoTo asks for.
DesiredSpeed ==
    IF activeCommand[1].goto[1].speed # <<>>
    THEN activeCommand[1].goto[1].speed[1] ELSE DefaultSpeed

C34_NewRejectsInvalid ==
    [][(actor = "unbuilt" /\ actor' # "unbuilt") =>
          IF config.TickRateHz <= 0 \/ config.CommandQueueSize < 1
          THEN actor' = "none"
          ELSE /\ actor' = "idle"
               /\ Place(state') = <<config.InitialPosition.lat,
                                    config.InitialPosition.lon,
                                    config.InitialPosition.alt>>
               /\ state'.gs = config.InitialVelocity.gs
               /\ state'.vs = config.InitialVelocity.vs
               /\ state'.hdg = config.InitialHeading
               /\ activeCommand' = <<>>]_vars

\* The error the claim names for a GoTo command: that of the first failing
\* check in the order latitude, longitude, altitude, negative speed, speed
\* above the maximum; "nil" when all pass.
FirstFailing(g) ==
    IF g.target.lat \notin (-MaxLatitude)..MaxLatitude THEN "ErrInvalidLatitude"
    ELSE IF g.target.lon \notin (-MaxLongitude)..MaxLongitude THEN "ErrInvalidLongitude"
    ELSE IF ~(g.target.alt >= 0) THEN "ErrInvalidAltitude"
    ELSE IF g.speed # <<>> /\ g.speed[1] < 0 THEN "ErrInvalidSpeed"
    ELSE IF g.speed # <<>> /\ g.speed[1] \notin 0..MaxSpeed THEN "ErrSpeedExceedsMax"
    ELSE "nil"

\* C35: ValidateGoToCommand returns no error exactly for a latitude in
\* [-90, 90] degrees, a longitude in [-180, 180], an altitude >= 0 and a
\* speed that is absent or in [0, maxSpeed], the ends included; otherwise it
\* returns the error of the first failing check.  Seen at the GoTo handler:
\* a request ends with that error, or goes on to SubmitCommand.
C35_ValidateGoTo ==
    \A c \in CmdIds :
       submit[c].cmd # <<>> =>
          LET g == submit[c].cmd[1].goto[1]
          IN /\ ValidateGoToCommand(g, MaxSpeed) = FirstFailing(g)
             /\ IF FirstFailing(g) = "nil"
                THEN submit[c].pc = "parked" \/ submit[c].result \in {"ok", "QueueFull"}
                ELSE submit[c].pc = "done" /\ submit[c].result = FirstFailing(g)

\* A command on the bounds with speed 0 was accepted, and a request failing
\* every check was answered with the latitude error.
C35_Witness ==
    /\ activeCommand # <<>>
    /\ activeCommand[1].goto[1] = [target |-> Pos(MaxLatitude, MaxLongitude, 0),
                                   speed |-> <<0>>]
    /\ \E c \in CmdIds :
          /\ submit[c].cmd # <<>>
          /\ submit[c].cmd[1].goto[1].target = Pos(MaxLatitude + 1, MaxLongitude + 1, -1)
          /\ submit[c].result = "ErrInvalidLatitude"

\* An id is registered with a queue that has been closed: the next Publish
\* would send into a closed queue and the next Unsubscribe of that id would
\* close it a second time.
RegisteredClosed ==
    \E id \in DOMAIN subscribers : chans[subscribers[id]].closed

\* C36: under any interleaving of Subscribe, Unsubscribe (repeated and of
\* unknown ids too), SubscriberCount and Publish, no registered queue is
\* closed, so that Publish never sends into a closed queue and no queue is
\* closed twice; a queue is closed only by the Unsubscribe of the id it is
\* registered under, and SubscriberCount goes up by one with the Subscribe
\* of a new id, down by one with the Unsubscribe of a registered id, and is
\* otherwise unchanged.
C36_RegistrySafe ==
    /\ [](~RegisteredClosed)
    /\ [][/\ \A c \in DOMAIN chans :
                (chans'[c].closed /\ ~chans[c].closed) =>
                   \E id \in DOMAIN subscribers :
                      subscribers[id] = c /\ id \notin DOMAIN subscribers'
          /\ \A c \in DOMAIN chans :
                Len(chans'[c].buf) > Len(chans[c].buf) =>
                   ~chans[c].closed /\ ~chans'[c].closed
          /\ \A id \in SubIds :
                /\ Subscribe(id) =>
                      SubscriberCount' = SubscriberCount
                         + (IF id \in DOMAIN subscribers THEN 0 ELSE 1)
                /\ Unsubscribe(id) =>
                      SubscriberCount' = SubscriberCount
                         - (IF id \in DOMAIN subscribers THEN 1 ELSE 0)
          /\ SubscriberCount' # SubscriberCount =>
                \E id \in SubIds : Subscribe(id) \/ Unsubscribe(id)]_vars

\* An id was unsubscribed and subscribed again, and a snapshot published to
\* its new queue: one queue is closed, the other is registered and holds a
\* snapshot, and one id is counted.
C36_Witness ==
    /\ SubscriberCount = 1
    /\ \E c \in DOMAIN chans : chans[c].closed
    /\ \E id \in DOMAIN subscribers :
          /\ ~chans[subscribers[id]].closed
          /\ chans[subscribers[id]].buf # <<>>

\* C37: position, velocity, heading and timestamp of the aircraft state
\* change only inside a tick.  Accepting a command and answering a state
\* request leave the state as it is, and accepting a command leaves nothing
\* of the command it replaces: the slot holds the accepted command and the
\* trajectory progress is that of a command just accepted.  So a command
\* has no effect before the first tick after its acceptance, and none at
\* all when it is replaced before that tick.
C37_StateChangesInTick ==
    [][/\ ~TickStep => state' = state
       /\ hist'.handled # hist.handled =>
             /\ activeCommand' = <<Head(commandQueue)>>
             /\ trajectoryState' =
                   IF Head(commandQueue).type = "trajectory" THEN <<0>> ELSE <<>>
       /\ hist'.replies # hist.replies =>
             query'[Head(stateRequests)].snap = <<state>>]_vars

\* Between two ticks a command was accepted and replaced by a GoTo and a
\* state request answered; the second tick flew the GoTo.
C37_Witness ==
    /\ hist.ticks = MaxTicks
    /\ hist.betweenCmds = 2
    /\ hist.betweenReplies >= 1
    /\ hist.lastTick = "goto"
    /\ state.gs > 0

\* C38: once a Stop has been active for a tick, the position stays as it is
\* under every later Stop and Hold command and tick, whatever the ground
\* speed was when the Stop was accepted.  (Stop and Hold are the only
\* commands sent here.)
C38_StoppedStays ==
    [][hist.lastTick = "stop" => Place(state') = Place(state)]_vars

OwnVelocity == [gs |-> state.gs, vs |-> state.vs]
EffectiveVelocity == ApplyEffects(environment, state.hdg, OwnVelocity)

\* C40: the wind-perturbed effective velocity moves the aircraft only on a
\* tick with no active command, and the stored ground and vertical speed
\* are then as before the tick.  On a GoTo, Trajectory or Hold tick the
\* position, velocity and heading come out as they would with no
\* environment at all: the position is integrated with the aircraft's own
\* stored velocity, by the stored ground speed along the new heading.
C40_WindOnlyWhenIdle ==
    [][TickStep =>
          IF activeCommand = <<>>
          THEN /\ Place(state') =
                     Place(updatePosition(Sim, DeltaTime, EffectiveVelocity).state)
               /\ state'.gs = state.gs /\ state'.vs = state.vs
          ELSE /\ Motion(state') = Motion(tick(Sim, NoEnvironment, clock).state)
               /\ \/ Place(state') = Place(state)
                  \/ /\ state'.lat - state.lat
                           = QuoT(state'.gs * DeltaTime * CosMilli(state'.hdg), 1000)
                     /\ state'.lon - state.lon
                           = QuoT(state'.gs * DeltaTime * SinMilli(state'.hdg), 1000)
                     /\ state'.alt - state.alt = state'.vs * DeltaTime]_vars

\* In a west wind the idle aircraft was carried east faster than its own
\* speed for a tick, and on the Hold tick after it moved by its own speed.
C40_Witness ==
    /\ HasWind
    /\ EffectiveVelocity # OwnVelocity
    /\ hist.ticks = MaxTicks
    /\ hist.lastTick = "hold"
    /\ state.gs = MaxSpeed - SpeedChangeRate * DeltaTime
    /\ state.lon = EffectiveVelocity.gs + SpeedChangeRate * DeltaTime
                      + state.gs * DeltaTime

=============================================================================
